---- MODULE Spec2Model ----
(***************************************************************************)
(* Verification model of chriswa-devkit: the Claude Code PreToolUse hook   *)
(* handler (claude/hook.ts) and the bash rules it loads (cd, find, git).   *)
(* Strings are tuples of one-character strings so that the regular         *)
(* expressions, trim() and split() of the source are computed character by *)
(* character.                                                              *)
(***************************************************************************)
EXTENDS Naturals, Integers, Sequences, FiniteSets, TLC

VARIABLES
  argv,           \* Bun.argv[2], Bun.argv[3]
  rulesModule,    \* what import(indexPath) yields: the exported rules in order, or a failed import
  stdin,          \* the document waiting on standard input
  debugWritable,  \* whether writeFileSync(debugFilePath, ...) can succeed
  pc,             \* position of the hook handler in its script
  rules,          \* rules loaded from the index module
  input,          \* text read from stdin
  debugFile,      \* content of ~/.claude.lasttool.json
  data,           \* parseResult.data
  evaluated,      \* rules that have been called, in call order
  decisions,      \* non-null rule results, in rule order
  stdout,         \* documents written to standard output
  stderr,         \* whether a diagnostic was written to standard error
  exitCode,       \* process exit status; Running while the process is alive
  args,           \* session-search: process.argv.slice(2)
  projectsDir,    \* session-search: the transcript files under ~/.claude/projects, or Missing
  opts,           \* session-search: what parseArgs returned
  typeFilter,     \* session-search: the type filter main built, NoFilter for null
  sessionFiles,   \* session-search: the files findAllSessionFiles returned
  scanned,        \* session-search: how many of sessionFiles the main loop has searched
  allResults,     \* session-search: the results pushed so far
  sessionsWithMatches,  \* session-search: session ids with a match, in insertion order
  clock,          \* status line: the system time, what new Date() gives
  homeWritable,   \* status line: whether the files under the home directory can be written
  statusFile,     \* status line: content of ~/.claude.laststatusline.json
  stateFile,      \* status line: content of ~/.claude.statusline-state.json
  windowState,    \* status line: what loadWindowState returned
  now,            \* status line: the Date getCurrentWindow took
  currentWindow,  \* status line: what getCurrentWindow returned
  settingsFile,   \* hook installer: content of ~/.claude/settings.json
  hookScriptExists,  \* hook installer: whether the hook script is on disk
  backups,        \* hook installer: the backup copies made, oldest first
  settings,       \* hook installer: parseResult.data, as main changes it
  settingsWrites, \* hook installer: how often settings.json was written
  runs            \* hook installer: how many runs have ended

\* the variables of the session search tool
searchVars == <<args, projectsDir, opts, typeFilter, sessionFiles, scanned, allResults,
                sessionsWithMatches>>

\* the variables of the status-line formatter
windowVars == <<clock, homeWritable, statusFile, stateFile, windowState, now, currentWindow>>

\* the variables of the hook installer
installVars == <<settingsFile, hookScriptExists, backups, settings, settingsWrites, runs>>

\* the variables of the two tools beside the guards and the search
toolVars == <<windowVars, installVars>>

vars == <<argv, rulesModule, stdin, debugWritable, pc, rules, input, debugFile,
          data, evaluated, decisions, stdout, stderr, exitCode, searchVars, toolVars>>

(***************************************************************************)
(* Bounds of the model                                                     *)
(***************************************************************************)
\* longest command, in words, drawn for the rule checks
MaxWords == 4
\* longest rule registration drawn for the decision-selection checks
MaxRules == 3

(***************************************************************************)
(* JavaScript string primitives                                            *)
(***************************************************************************)
\* \s of a JavaScript regular expression, over the characters the model draws
IsSpace(c) == c \in {" ", "\n", "\t"}

LowerLetters == <<"a","b","c","d","e","f","g","h","i","j","k","l","m",
                  "n","o","p","q","r","s","t","u","v","w","x","y","z">>
UpperLetters == <<"A","B","C","D","E","F","G","H","I","J","K","L","M",
                  "N","O","P","Q","R","S","T","U","V","W","X","Y","Z">>
Digits == {"0","1","2","3","4","5","6","7","8","9"}

\* \w of a JavaScript regular expression
IsWordChar(c) ==
  \/ \E k \in 1..26 : c = LowerLetters[k] \/ c = UpperLetters[k]
  \/ c \in Digits
  \/ c = "_"

toLowerCaseChar(c) ==
  IF \E k \in 1..26 : c = UpperLetters[k]
  THEN LowerLetters[CHOOSE k \in 1..26 : c = UpperLetters[k]]
  ELSE c

toUpperCaseChar(c) ==
  IF \E k \in 1..26 : c = LowerLetters[k]
  THEN UpperLetters[CHOOSE k \in 1..26 : c = LowerLetters[k]]
  ELSE c

\* U+0130, capital I with dot above, and U+0307, the combining dot above: one element of
\* a text each; U+0130 is the one letter whose lower case is two characters long
DottedCapitalI == "U+0130"
CombiningDotAbove == "U+0307"

\* String.prototype.toLowerCase
RECURSIVE toLowerCase(_)
toLowerCase(s) ==
  IF \A k \in 1..Len(s) : s[k] # DottedCapitalI
    THEN [k \in 1..Len(s) |-> toLowerCaseChar(s[k])]
  ELSE LET p == CHOOSE k \in 1..Len(s) : s[k] = DottedCapitalI /\ \A j \in 1..(k - 1) : s[j] # DottedCapitalI
       IN [k \in 1..(p - 1) |-> toLowerCaseChar(s[k])]
          \o <<"i", CombiningDotAbove>>
          \o toLowerCase(SubSeq(s, p + 1, Len(s)))

RECURSIVE trimStart(_)
trimStart(s) == IF s # <<>> /\ IsSpace(Head(s)) THEN trimStart(Tail(s)) ELSE s

RECURSIVE trimEnd(_)
trimEnd(s) ==
  IF s # <<>> /\ IsSpace(s[Len(s)]) THEN trimEnd(SubSeq(s, 1, Len(s) - 1)) ELSE s

\* String.prototype.trim
trim(s) == trimEnd(trimStart(s))

\* the literal lit occurs in s at index i
MatchLit(s, i, lit) ==
  /\ i >= 1
  /\ i + Len(lit) - 1 <= Len(s)
  /\ \A k \in 1..Len(lit) : s[i + k - 1] = lit[k]

\* String.prototype.includes
includes(s, lit) == \E i \in 1..(Len(s) + 1) : MatchLit(s, i, lit)

\* first index at or after i that holds no whitespace (Len(s) + 1 when none)
RECURSIVE SkipSpaces(_, _)
SkipSpaces(s, i) == IF i <= Len(s) /\ IsSpace(s[i]) THEN SkipSpaces(s, i + 1) ELSE i

\* \b at the position before index j, where index j - 1 holds a word character
WordBoundary(s, j) == j > Len(s) \/ ~IsWordChar(s[j])

\* String.prototype.split(/\s+/)
RECURSIVE SplitFrom(_, _, _, _)
SplitFrom(s, i, cur, acc) ==
  IF i > Len(s) THEN Append(acc, cur)
  ELSE IF IsSpace(s[i]) THEN SplitFrom(s, SkipSpaces(s, i), <<>>, Append(acc, cur))
  ELSE SplitFrom(s, i + 1, Append(cur, s[i]), acc)

splitWhitespace(s) == SplitFrom(s, 1, <<>>, <<>>)

(***************************************************************************)
(* Regular expressions of the rules                                       *)
(***************************************************************************)
\* /^git\s/
ReStartsGit(s) == MatchLit(s, 1, <<"g", "i", "t">>) /\ Len(s) >= 4 /\ IsSpace(s[4])

\* git\s+<word>\b matched at index i
GitWordAt(s, i, word) ==
  /\ MatchLit(s, i, <<"g", "i", "t">>)
  /\ i + 3 <= Len(s)
  /\ IsSpace(s[i + 3])
  /\ LET j == SkipSpaces(s, i + 3)
     IN  MatchLit(s, j, word) /\ WordBoundary(s, j + Len(word))

\* /git\s+commit\b/
ReGitCommit(s) == \E i \in 1..Len(s) : GitWordAt(s, i, <<"c", "o", "m", "m", "i", "t">>)

\* /^git\s+add\b/
ReStartsGitAdd(s) == GitWordAt(s, 1, <<"a", "d", "d">>)

\* /git\s+add\b/
ReGitAdd(s) == \E i \in 1..Len(s) : GitWordAt(s, i, <<"a", "d", "d">>)

\* /-m\s/
ReDashM(s) == \E i \in 1..Len(s) : MatchLit(s, i, <<"-", "m">>) /\ i + 2 <= Len(s) /\ IsSpace(s[i + 2])

\* /\n/
ReNewline(s) == \E i \in 1..Len(s) : s[i] = "\n"

\* /^cd(\s|$)/
ReStartsCd(s) == MatchLit(s, 1, <<"c", "d">>) /\ (Len(s) = 2 \/ IsSpace(s[3]))

\* /^find\s/
ReStartsFind(s) == MatchLit(s, 1, <<"f", "i", "n", "d">>) /\ Len(s) >= 5 /\ IsSpace(s[5])

(***************************************************************************)
(* Rules: RuleContext -> RuleDecision | null                               *)
(***************************************************************************)
\* a rule's null result
NoDecision == [decision |-> "null", reason |-> <<>>, priority |-> 0]

RuleDecision(d, r, p) == [decision |-> d, reason |-> <<r>>, priority |-> p]

GIT_READONLY_COMMANDS == {
  <<"s", "t", "a", "t", "u", "s">>, <<"d", "i", "f", "f">>, <<"s", "h", "o", "w">>, <<"l", "o", "g">>, <<"s", "h", "o", "r", "t", "l", "o", "g">>, <<"r", "e", "f", "l", "o", "g">>, <<"b", "l", "a", "m", "e">>, <<"a", "n", "n", "o", "t", "a", "t", "e">>,
  <<"g", "r", "e", "p">>, <<"l", "s", "-", "f", "i", "l", "e", "s">>, <<"l", "s", "-", "t", "r", "e", "e">>, <<"l", "s", "-", "r", "e", "m", "o", "t", "e">>, <<"c", "a", "t", "-", "f", "i", "l", "e">>, <<"r", "e", "v", "-", "p", "a", "r", "s", "e">>,
  <<"r", "e", "v", "-", "l", "i", "s", "t">>, <<"d", "e", "s", "c", "r", "i", "b", "e">>, <<"n", "a", "m", "e", "-", "r", "e", "v">>, <<"f", "o", "r", "-", "e", "a", "c", "h", "-", "r", "e", "f">>, <<"v", "a", "r">>, <<"f", "s", "c", "k">>,
  <<"v", "e", "r", "i", "f", "y", "-", "c", "o", "m", "m", "i", "t">>, <<"v", "e", "r", "i", "f", "y", "-", "t", "a", "g">>, <<"c", "h", "e", "c", "k", "-", "i", "g", "n", "o", "r", "e">>, <<"c", "h", "e", "c", "k", "-", "a", "t", "t", "r">>, <<"c", "h", "e", "c", "k", "-", "m", "a", "i", "l", "m", "a", "p">>,
  <<"d", "i", "f", "f", "-", "t", "r", "e", "e">>, <<"d", "i", "f", "f", "-", "f", "i", "l", "e", "s">>, <<"d", "i", "f", "f", "-", "i", "n", "d", "e", "x">>, <<"r", "a", "n", "g", "e", "-", "d", "i", "f", "f">>, <<"h", "e", "l", "p">>, <<"v", "e", "r", "s", "i", "o", "n">>,
  <<"c", "o", "u", "n", "t", "-", "o", "b", "j", "e", "c", "t", "s">>, <<"c", "h", "e", "r", "r", "y">>, <<"w", "h", "a", "t", "c", "h", "a", "n", "g", "e", "d">>, <<"m", "e", "r", "g", "e", "-", "b", "a", "s", "e">>, <<"g", "e", "t", "-", "t", "a", "r", "-", "c", "o", "m", "m", "i", "t", "-", "i", "d">> }

MultiLineCommitDeny ==
  RuleDecision("deny", "Commit messages should be one line only.", 120)

GitAddWithoutCommitDeny ==
  RuleDecision("deny", "Do not perform linked git operations separately. Commit messages should be single-line.", 110)

GitAddWithoutCommitDenyLegacy ==
  RuleDecision("deny", "Do not perform linked git operations separately. Rather than doing a git add, then following up with a git commit", 110)

GitMutationAsk ==
  RuleDecision("ask", "Git Mutation Guard: This git command potentially modifies repository state and requires approval.", 100)

FindDeny ==
  RuleDecision("deny", "To avoid excessive delays, do not use find without excluding node_modules", 50)

CdDeny ==
  RuleDecision("deny", "CD Guard: cd commands should be wrapped in a subshell: (cd subdir && command)", 30)

\* normalizedCommand.split(/\s+/)[1] ?? ''
secondWord(normalizedCommand) ==
  LET parts == splitWhitespace(normalizedCommand)
  IN  IF Len(parts) >= 2 THEN parts[2] ELSE <<>>

\* mutant: the add guard that looks for && instead of a git commit
evaluateGitAmpersand(normalizedCommand) ==
  IF ~ReStartsGit(normalizedCommand) THEN NoDecision
  ELSE IF /\ ReGitCommit(normalizedCommand)
          /\ ReDashM(normalizedCommand)
          /\ ReNewline(normalizedCommand)
       THEN MultiLineCommitDeny
  ELSE IF ReStartsGitAdd(normalizedCommand) /\ ~includes(normalizedCommand, <<"&", "&">>)
       THEN GitAddWithoutCommitDeny
  ELSE IF secondWord(normalizedCommand) \notin GIT_READONLY_COMMANDS
       THEN GitMutationAsk
  ELSE NoDecision

\* the git rule the handler loads (claude/hooks/pretooluse/bash/git.ts)
evaluateGit(normalizedCommand) ==
  IF ~ReStartsGit(normalizedCommand) THEN NoDecision
  ELSE IF /\ ReGitCommit(normalizedCommand)
          /\ ReDashM(normalizedCommand)
          /\ ReNewline(normalizedCommand)
       THEN MultiLineCommitDeny
  ELSE IF ReStartsGitAdd(normalizedCommand) /\ ~ReGitCommit(normalizedCommand)
       THEN GitAddWithoutCommitDeny
  ELSE IF secondWord(normalizedCommand) \notin GIT_READONLY_COMMANDS
       THEN GitMutationAsk
  ELSE NoDecision

\* the earlier copy of the git rule: no multi-line guard, unanchored git add test
evaluateGitLegacy(normalizedCommand) ==
  IF ~ReStartsGit(normalizedCommand) THEN NoDecision
  ELSE IF ReGitAdd(normalizedCommand) /\ ~ReGitCommit(normalizedCommand)
       THEN GitAddWithoutCommitDenyLegacy
  ELSE IF secondWord(normalizedCommand) \notin GIT_READONLY_COMMANDS
       THEN GitMutationAsk
  ELSE NoDecision

\* String.prototype.startsWith
startsWith(s, prefix) == MatchLit(s, 1, prefix)

flagsWithArg ==
  {<<"-", "C">>, <<"-", "c">>, <<"-", "-", "g", "i", "t", "-", "d", "i", "r">>, <<"-", "-", "w", "o", "r", "k", "-", "t", "r", "e", "e">>, <<"-", "-", "n", "a", "m", "e", "s", "p", "a", "c", "e">>, <<"-", "-", "s", "u", "p", "e", "r", "-", "p", "r", "e", "f", "i", "x">>,
   <<"-", "-", "e", "x", "e", "c", "-", "p", "a", "t", "h">>}

standaloneFlags ==
  {<<"-", "-", "n", "o", "-", "p", "a", "g", "e", "r">>, <<"-", "-", "b", "a", "r", "e">>, <<"-", "-", "n", "o", "-", "r", "e", "p", "l", "a", "c", "e", "-", "o", "b", "j", "e", "c", "t", "s">>, <<"-", "-", "l", "i", "t", "e", "r", "a", "l", "-", "p", "a", "t", "h", "s", "p", "e", "c", "s">>,
   <<"-", "-", "g", "l", "o", "b", "-", "p", "a", "t", "h", "s", "p", "e", "c", "s">>, <<"-", "-", "n", "o", "g", "l", "o", "b", "-", "p", "a", "t", "h", "s", "p", "e", "c", "s">>, <<"-", "-", "i", "c", "a", "s", "e", "-", "p", "a", "t", "h", "s", "p", "e", "c", "s">>,
   <<"-", "-", "n", "o", "-", "o", "p", "t", "i", "o", "n", "a", "l", "-", "l", "o", "c", "k", "s">>}

\* the while loop of extractGitSubcommand, from index i of parts (1-based)
RECURSIVE extractFromParts(_, _)
extractFromParts(parts, i) ==
  IF i > Len(parts) THEN <<>>
  ELSE IF parts[i] \in flagsWithArg THEN extractFromParts(parts, i + 2)
  ELSE IF \E f \in flagsWithArg : startsWith(parts[i], f \o <<"=">>)
       THEN extractFromParts(parts, i + 1)
  ELSE IF parts[i] \in standaloneFlags THEN extractFromParts(parts, i + 1)
  ELSE parts[i]

\* the subcommand extraction of the plugin's git guard, which skips global flags
extractGitSubcommand(cmd) == extractFromParts(splitWhitespace(cmd), 2)

\* mutant: the cd guard without its test of the first token
evaluateCdAlways(normalizedCommand) == CdDeny

\* mutant: the test for the letters cd without the (\s|$) that follows them
evaluateCdPrefix(normalizedCommand) ==
  IF ~MatchLit(normalizedCommand, 1, <<"c", "d">>) THEN NoDecision ELSE CdDeny

\* CD Guard
evaluateCd(normalizedCommand) ==
  IF ~ReStartsCd(normalizedCommand) THEN NoDecision ELSE CdDeny

\* mutant: the guard without its node_modules exemption
evaluateFindAlways(normalizedCommand) ==
  IF ~ReStartsFind(normalizedCommand) THEN NoDecision ELSE FindDeny

\* Find Guard
evaluateFind(normalizedCommand) ==
  IF ~ReStartsFind(normalizedCommand) THEN NoDecision
  ELSE IF includes(normalizedCommand, <<"n", "o", "d", "e", "_", "m", "o", "d", "u", "l", "e", "s">>) THEN NoDecision
  ELSE FindDeny

\* the rule functions an index module can export
RuleCatalog == {"cd", "find", "git", "gitLegacy"}

\* rule(context)
ApplyRule(rule, context) ==
  CASE rule = "cd" -> evaluateCd(context.normalizedCommand)
    [] rule = "find" -> evaluateFind(context.normalizedCommand)
    [] rule = "git" -> evaluateGit(context.normalizedCommand)
    [] rule = "gitLegacy" -> evaluateGitLegacy(context.normalizedCommand)

(***************************************************************************)
(* Hook input: the JSON document on stdin                                  *)
(***************************************************************************)
\* an optional field of the document: absent, a JSON string, or another JSON value
Absent == [t |-> "absent", v |-> <<>>]
Str(s) == [t |-> "string", v |-> s]
Other == [t |-> "other", v |-> <<>>]

\* text that JSON.parse rejects
Malformed ==
  [syntax |-> "malformed", root |-> "none", tool_name |-> Absent,
   tool_input |-> "absent", command |-> Absent]

\* valid JSON whose root is not an object (null, a number, a string)
NonObject ==
  [syntax |-> "json", root |-> "other", tool_name |-> Absent,
   tool_input |-> "absent", command |-> Absent]

\* { tool_name?, tool_input?: { command? } }; tool_input is "absent", "object" or "other"
Document(tool_name, tool_input, command) ==
  [syntax |-> "json", root |-> "object", tool_name |-> tool_name,
   tool_input |-> tool_input, command |-> command]

\* no text: what input and the debug file hold before the handler touches them
NoText ==
  [syntax |-> "none", root |-> "none", tool_name |-> Absent,
   tool_input |-> "absent", command |-> Absent]

\* JSON.parse(input) throws
JsonParseThrows(text) == text.syntax # "json"

\* mutant: a schema that checks the root only, not the field types
SchemaAcceptsAnyObject(text) == text.root = "object"

\* HookInputSchema.safeParse(...).success
SchemaAccepts(text) ==
  /\ text.root = "object"
  /\ text.tool_name.t \in {"absent", "string"}
  /\ text.tool_input \in {"absent", "object"}
  /\ text.tool_input = "object" => text.command.t \in {"absent", "string"}

\* parseResult.data before the handler has parsed anything
NoData == [tool_name |-> Absent, tool_input |-> "absent", command |-> Absent]

\* parseResult.data
ParsedData(text) ==
  [tool_name |-> text.tool_name, tool_input |-> text.tool_input,
   command |-> IF text.tool_input = "object" THEN text.command ELSE Absent]

\* data.tool_input?.command ?? ''
commandOf(d) == IF d.command.t = "string" THEN d.command.v ELSE <<>>

\* data.tool_name ?? ''
actualToolNameOf(d) == IF d.tool_name.t = "string" THEN d.tool_name.v ELSE <<>>

(***************************************************************************)
(* Hook handler                                                            *)
(***************************************************************************)
validHookEventNames ==
  {"PreToolUse", "PostToolUse", "UserPromptSubmit", "PermissionRequest", "Notification",
   "Stop", "SubagentStop", "PreCompact", "SessionStart", "SessionEnd"}

\* a failed import(indexPath)
ImportFails == <<"import fails">>

\* Bun.argv[2]?.toLowerCase()
toolName == toLowerCase(argv.toolName)

\* toolName.charAt(0).toUpperCase() + toolName.slice(1)
expectedToolName ==
  LET name == toolName
  IN IF name = <<>> THEN <<>>
     ELSE <<toUpperCaseChar(name[1])>> \o SubSeq(name, 2, Len(name))

\* the HookOutput document outputHookResponse writes
HookOutput(permissionDecision, permissionDecisionReason) ==
  [hookEventName |-> argv.hookEventName,
   permissionDecision |-> permissionDecision,
   permissionDecisionReason |-> permissionDecisionReason]

NotMatchingReason == <<"Not a ">> \o expectedToolName \o <<" tool call">>

CommandAllowedReason == <<"Command allowed">>

\* the RuleContext built from the parsed input
RuleContextOf(d) ==
  [toolName |-> actualToolNameOf(d),
   command |-> commandOf(d),
   normalizedCommand |-> trim(commandOf(d))]

\* rules.map((rule) => rule(context)).filter((result) => result !== null)
RECURSIVE collectDecisions(_, _)
collectDecisions(rs, context) ==
  IF rs = <<>> THEN <<>>
  ELSE LET result == ApplyRule(Head(rs), context)
           rest == collectDecisions(Tail(rs), context)
       IN  IF result = NoDecision THEN rest ELSE <<result>> \o rest

\* mutant: the reducer with >= in place of >, so the last of several equal priorities wins
pickHigherOrEqual(max, curr) == IF curr.priority >= max.priority THEN curr ELSE max

\* the reducer: (max, curr) => curr.priority > max.priority ? curr : max
pickHigher(max, curr) == IF curr.priority > max.priority THEN curr ELSE max

\* decisions.reduce(reducer) without an initial value, from index i on
RECURSIVE reduceFrom(_, _, _)
reduceFrom(ds, i, max) ==
  IF i > Len(ds) THEN max ELSE reduceFrom(ds, i + 1, pickHigher(max, ds[i]))

highestPriority(ds) == reduceFrom(ds, 2, ds[1])

\* process.exit(code) after an optional diagnostic on stderr
Exit(code, diagnostic) ==
  /\ pc' = "done"
  /\ exitCode' = code
  /\ stderr' = (stderr \/ diagnostic)

\* CLI argument checks and the dynamic import of the rules
Startup ==
  /\ pc = "start"
  /\ IF toolName = <<>> \/ argv.hookEventName = ""
       THEN Exit(1, TRUE) /\ UNCHANGED rules
     ELSE IF argv.hookEventName \notin validHookEventNames
       THEN Exit(1, TRUE) /\ UNCHANGED rules
     ELSE IF rulesModule = ImportFails
       THEN Exit(1, TRUE) /\ UNCHANGED rules
     ELSE /\ rules' = rulesModule
          /\ pc' = "read"
          /\ UNCHANGED <<exitCode, stderr>>
  /\ UNCHANGED <<argv, rulesModule, stdin, debugWritable, input, debugFile, data,
                 evaluated, decisions, stdout>>
  /\ UNCHANGED searchVars
  /\ UNCHANGED toolVars

\* await Bun.stdin.text(); writeFileSync(debugFilePath, input): a failed write throws
\* and nothing catches it
ReadInput ==
  /\ pc = "read"
  /\ input' = stdin
  /\ IF debugWritable
       THEN /\ debugFile' = stdin
            /\ pc' = "parse"
            /\ UNCHANGED <<exitCode, stderr>>
       ELSE Exit(1, TRUE) /\ UNCHANGED debugFile
  /\ UNCHANGED <<argv, rulesModule, stdin, debugWritable, rules, data,
                 evaluated, decisions, stdout>>
  /\ UNCHANGED searchVars
  /\ UNCHANGED toolVars

\* HookInputSchema.safeParse(JSON.parse(input)): JSON.parse throws on malformed text,
\* a schema violation exits with status 1
ParseInput ==
  /\ pc = "parse"
  /\ IF JsonParseThrows(input)
       THEN Exit(1, TRUE) /\ UNCHANGED data
     ELSE IF ~SchemaAccepts(input)
       THEN Exit(1, TRUE) /\ UNCHANGED data
     ELSE /\ data' = ParsedData(input)
          /\ pc' = "tool"
          /\ UNCHANGED <<exitCode, stderr>>
  /\ UNCHANGED <<argv, rulesModule, stdin, debugWritable, rules, input, debugFile,
                 evaluated, decisions, stdout>>
  /\ UNCHANGED searchVars
  /\ UNCHANGED toolVars

\* mutant: the comparison against the lower-cased argument instead of the capitalised one
toolMismatchLowerCase(d) == d.tool_name.t # "string" \/ d.tool_name.v # toolName

\* data.tool_name !== expectedToolName
toolMismatch(d) == d.tool_name.t # "string" \/ d.tool_name.v # expectedToolName

\* only apply this hook to the specified tool
CheckTool ==
  /\ pc = "tool"
  /\ IF toolMismatch(data)
       THEN /\ stdout' = Append(stdout, HookOutput("allow", NotMatchingReason))
            /\ Exit(0, FALSE)
       ELSE /\ pc' = "eval"
            /\ UNCHANGED <<stdout, exitCode, stderr>>
  /\ UNCHANGED <<argv, rulesModule, stdin, debugWritable, rules, input, debugFile,
                 data, evaluated, decisions>>
  /\ UNCHANGED searchVars
  /\ UNCHANGED toolVars

\* run all rules and collect the non-null decisions
EvaluateRules ==
  /\ pc = "eval"
  /\ evaluated' = evaluated \o rules
  /\ decisions' = collectDecisions(rules, RuleContextOf(data))
  /\ pc' = "select"
  /\ UNCHANGED <<argv, rulesModule, stdin, debugWritable, rules, input, debugFile,
                 data, stdout, stderr, exitCode>>
  /\ UNCHANGED searchVars
  /\ UNCHANGED toolVars

\* mutant: ask instead of allow when no rule had an opinion
finalResponseAskByDefault(ds) ==
  IF Len(ds) = 0 THEN HookOutput("ask", CommandAllowedReason)
  ELSE HookOutput(highestPriority(ds).decision, highestPriority(ds).reason)

\* the document the handler writes once the rules have run
finalResponse(ds) ==
  IF Len(ds) = 0 THEN HookOutput("allow", CommandAllowedReason)
  ELSE HookOutput(highestPriority(ds).decision, highestPriority(ds).reason)

\* allow when no rule had an opinion, else output the winning decision
EmitDecision ==
  /\ pc = "select"
  /\ stdout' = Append(stdout, finalResponse(decisions))
  /\ Exit(0, FALSE)
  /\ UNCHANGED <<argv, rulesModule, stdin, debugWritable, rules, input, debugFile,
                 data, evaluated, decisions>>
  /\ UNCHANGED searchVars
  /\ UNCHANGED toolVars

Next ==
  \/ Startup
  \/ ReadInput
  \/ ParseInput
  \/ CheckTool
  \/ EvaluateRules
  \/ EmitDecision

(***************************************************************************)
(* Invocations the model draws                                             *)
(***************************************************************************)
Invocation(t, e) == [toolName |-> t, hookEventName |-> e]

\* hook.ts bash PreToolUse, as the installer registers it
BashPreToolUse == Invocation(<<"b", "a", "s", "h">>, "PreToolUse")

Invocations ==
  {BashPreToolUse,
   Invocation(<<"B", "A", "S", "H">>, "PreToolUse"),
   Invocation(<<"e", "d", "i", "t">>, "PostToolUse"),
   Invocation(<<"b", "a", "s", "h">>, "pretooluse"),
   Invocation(<<"b", "a", "s", "h">>, ""),
   Invocation(<<>>, "")}

\* the index module of claude/hooks/pretooluse/bash
BashRules == <<"cd", "find", "git">>

\* the same directory with the earlier copy of the git rule
BashRulesLegacy == <<"cd", "find", "gitLegacy">>

\* every export order of at most n distinct rules
Registrations(n) ==
  {r \in UNION {[1..k -> RuleCatalog] : k \in 0..n} :
     \A i, j \in 1..Len(r) : i # j => r[i] # r[j]}

\* commands on which the catalog's rules agree, tie and disagree
SampleCommands ==
  {<<>>,
   <<" ", " ", " ">>,
   <<"c", "d">>,
   <<"c", "d", " ", "s", "r", "c">>,
   <<"c", "d", "k", " ", "d", "e", "p", "l", "o", "y">>,
   <<"f", "i", "n", "d", " ", ".", " ", "-", "n", "a", "m", "e", " ", "x">>,
   <<"f", "i", "n", "d", " ", ".", " ", "-", "n", "o", "t", " ", "-", "p", "a", "t", "h", " ", "n", "o", "d", "e", "_", "m", "o", "d", "u", "l", "e", "s">>,
   <<"g", "i", "t">>,
   <<" ", "g", "i", "t", " ", " ", "s", "t", "a", "t", "u", "s", " ">>,
   <<"g", "i", "t", "\t", "p", "u", "s", "h">>,
   <<"g", "i", "t", " ", "a", "d", "d", " ", "x">>,
   <<"g", "i", "t", " ", "s", "t", "a", "t", "u", "s", " ", "&", "&", " ", "g", "i", "t", " ", "a", "d", "d", " ", "x">>,
   <<"g", "i", "t", " ", "-", "C", " ", "x", " ", "s", "t", "a", "t", "u", "s">>,
   <<"g", "i", "t", " ", "c", "o", "m", "m", "i", "t", " ", "-", "m", " ", "a", "\n", "b">>,
   <<"g", "i", "t", " ", "a", "d", "d", " ", "x", " ", "&", "&", " ", "g", "i", "t", " ", "c", "o", "m", "m", "i", "t", " ", "-", "m", " ", "a", "\n", "b">>,
   <<"g", "i", "t", " ", "a", "d", "d", " ", "x", " ", "&", "&", " ", "g", "i", "t", " ", "c", "o", "m", "m", "i", "t", " ", "-", "m", " ", "a", "b">>,
   <<"x", " ", "&", "&", " ", "g", "i", "t", " ", "c", "o", "m", "m", "i", "t", " ", "-", "m", " ", "a", "\n", "b">>,
   <<"(", "c", "d", " ", "x", " ", "&", "&", " ", "x", ")">>,
   <<"f", "i", "n", "d">>,
   <<"f", "i", "n", "d", "e", "r", " ", "x">>,
   <<"f", "i", "n", "d", "\t", "n", "o", "d", "e", "_", "m", "o", "d", "u", "l", "e", "s", "/", "x">>}

Vocabulary ==
  {<<"g", "i", "t">>, <<"a", "d", "d">>, <<"c", "o", "m", "m", "i", "t">>, <<"s", "t", "a", "t", "u", "s">>, <<"-", "C">>, <<"-", "m">>, <<"&", "&">>, <<"x">>, <<"a", "\n", "b">>}

RECURSIVE JoinWords(_)
JoinWords(ws) ==
  IF ws = <<>> THEN <<>>
  ELSE IF Len(ws) = 1 THEN ws[1]
  ELSE ws[1] \o <<" ">> \o JoinWords(Tail(ws))

\* every command of at most n words of the vocabulary, joined by single spaces
Commands(n) == {JoinWords(ws) : ws \in UNION {[1..k -> Vocabulary] : k \in 0..n}}

ToolNames == {<<"B", "a", "s", "h">>, <<"b", "a", "s", "h">>, <<"E", "d", "i", "t">>}

\* every shape of stdin: malformed text, a non-object, and objects with each field
\* absent, of the wrong type, or a string
InputShapes ==
  {Malformed, NonObject}
  \cup {Document(tn, "absent", Absent) : tn \in {Absent, Other} \cup {Str(t) : t \in ToolNames}}
  \cup {Document(tn, "other", Absent) : tn \in {Absent, Other} \cup {Str(t) : t \in ToolNames}}
  \cup {Document(tn, "object", c) :
          tn \in {Absent, Other} \cup {Str(t) : t \in ToolNames},
          c \in {Absent, Other} \cup {Str(s) : s \in SampleCommands}}

\* the state of the process before its first statement
InitProcess ==
  /\ pc = "start"
  /\ rules = <<>>
  /\ input = NoText
  /\ debugFile = NoText
  /\ data = NoData
  /\ evaluated = <<>>
  /\ decisions = <<>>
  /\ stdout = <<>>
  /\ stderr = FALSE
  /\ exitCode = -1

\* any invocation, any input shape, the debug file writable or not
InitShapes ==
  /\ argv \in Invocations
  /\ rulesModule \in {ImportFails, BashRules}
  /\ stdin \in InputShapes
  /\ debugWritable \in BOOLEAN

\* any registration of the catalog's rules on the sample commands
InitRegistrations ==
  /\ argv = BashPreToolUse
  /\ rulesModule \in Registrations(MaxRules)
  /\ stdin \in {Document(Str(<<"B", "a", "s", "h">>), "object", Str(c)) : c \in SampleCommands}
  /\ debugWritable = TRUE

\* the bash rules on every command of the vocabulary
InitCommands ==
  /\ argv = BashPreToolUse
  /\ rulesModule = BashRules
  /\ stdin \in {Document(Str(<<"B", "a", "s", "h">>), "object", Str(c)) : c \in Commands(MaxWords)}
  /\ debugWritable = TRUE

\* the session search tool is not running
NoSearch ==
  /\ args = <<>>
  /\ projectsDir = <<>>
  /\ opts = <<>>
  /\ typeFilter = <<>>
  /\ sessionFiles = <<>>
  /\ scanned = 0
  /\ allResults = <<>>
  /\ sessionsWithMatches = <<>>

\* the status-line formatter is not running
NoFormatter ==
  /\ clock = 0
  /\ homeWritable = TRUE
  /\ statusFile = <<>>
  /\ stateFile = <<>>
  /\ windowState = <<>>
  /\ now = 0
  /\ currentWindow = <<>>

\* the hook installer is not running
NoInstaller ==
  /\ settingsFile = <<>>
  /\ hookScriptExists = TRUE
  /\ backups = <<>>
  /\ settings = <<>>
  /\ settingsWrites = 0
  /\ runs = 0

NoTools == NoFormatter /\ NoInstaller

Init == InitProcess /\ NoSearch /\ NoTools /\ (InitShapes \/ InitRegistrations \/ InitCommands)

Spec == Init /\ [][Next]_vars

(***************************************************************************)
(* Vocabulary of the properties                                            *)
(***************************************************************************)
\* the handler ran to its normal completion
CompletedNormally == pc = "done" /\ exitCode = 0

\* the invocation passes the argument checks and its rules load
ValidInvocation ==
  /\ argv.toolName # <<>>
  /\ argv.hookEventName \in validHookEventNames
  /\ rulesModule # ImportFails

\* stdin is JSON of the shape { tool_name?: string, tool_input?: { command?: string } }
ValidInput ==
  /\ stdin.syntax = "json"
  /\ stdin.root = "object"
  /\ stdin.tool_name.t # "other"
  /\ stdin.tool_input # "other"
  /\ stdin.tool_input = "object" => stdin.command.t # "other"

\* the tool named on stdin is the tool the guard was started for
ToolMatches == stdin.tool_name.t = "string" /\ stdin.tool_name.v = expectedToolName

\* the command on stdin, the empty string when the field is missing, trimmed
SubmittedCommand ==
  trim(IF stdin.tool_input = "object" /\ stdin.command.t = "string" THEN stdin.command.v ELSE <<>>)

\* what registered rule i returns for the submitted command
ResultOf(i) ==
  ApplyRule(rulesModule[i],
            [toolName |-> stdin.tool_name.v, command |-> SubmittedCommand,
             normalizedCommand |-> SubmittedCommand])

\* the registered rules that return a decision for the submitted command
Fired == {i \in 1..Len(rulesModule) : ResultOf(i) # NoDecision}

\* the handler evaluated its rules and completed
Decided == CompletedNormally /\ ValidInput /\ ToolMatches

Registered(rule) == \E i \in 1..Len(rulesModule) : rulesModule[i] = rule

(***************************************************************************)
(* C1: among the non-null decisions the registered rules return for one    *)
(* command, the emitted decision is the one of highest priority, and among *)
(* several of highest priority the one of the rule registered first.       *)
(***************************************************************************)
C1_FirstHighestPriorityWins ==
  (Decided /\ Fired # {}) =>
    \E k \in Fired :
      /\ \A j \in Fired : ResultOf(j).priority <= ResultOf(k).priority
      /\ \A j \in Fired : j < k => ResultOf(j).priority < ResultOf(k).priority
      /\ stdout = <<HookOutput(ResultOf(k).decision, ResultOf(k).reason)>>

\* two rules tie at the highest priority with different reasons; the first one's is emitted
C1_Witness ==
  /\ Decided
  /\ \E i, j \in Fired :
       /\ i < j
       /\ ResultOf(i).priority = ResultOf(j).priority
       /\ ResultOf(i).reason # ResultOf(j).reason
       /\ \A k \in Fired : ResultOf(k).priority <= ResultOf(i).priority
       /\ stdout = <<HookOutput(ResultOf(i).decision, ResultOf(i).reason)>>

(***************************************************************************)
(* C2: every invocation with valid arguments and valid input writes        *)
(* exactly one decision document, of decision allow, deny or ask, and      *)
(* exits with status 0.                                                    *)
(***************************************************************************)
C2_ExactlyOneDecisionAndExitZero ==
  (pc = "done" /\ ValidInvocation /\ ValidInput) =>
    /\ Len(stdout) = 1
    /\ stdout[1].permissionDecision \in {"allow", "deny", "ask"}
    /\ exitCode = 0

(***************************************************************************)
(* C3: when stdin is not JSON or violates the schema, the handler writes   *)
(* no decision document at any point, keeps running until it terminates,   *)
(* and terminates with a non-zero status.                                  *)
(***************************************************************************)
C3_InvalidInputNoDecision ==
  ~ValidInput =>
    /\ stdout = <<>>
    /\ pc = "done" \/ ENABLED Next
    /\ pc = "done" => exitCode > 0

\* the handler read invalid input, logged it, and the parse step ended the process
C3_Witness ==
  /\ ~ValidInput
  /\ pc = "done"
  /\ input = stdin
  /\ debugFile = stdin
  /\ exitCode = 1
  /\ stdout = <<>>

\* the document a run with a writable debug file emits for the input on stdin
DecisionWhenLogged ==
  IF ~ToolMatches THEN HookOutput("allow", NotMatchingReason)
  ELSE IF Fired = {} THEN HookOutput("allow", CommandAllowedReason)
  ELSE LET k == CHOOSE k \in Fired :
                  /\ \A j \in Fired : ResultOf(j).priority <= ResultOf(k).priority
                  /\ \A j \in Fired : j < k => ResultOf(j).priority < ResultOf(k).priority
       IN  HookOutput(ResultOf(k).decision, ResultOf(k).reason)

(***************************************************************************)
(* C4: a failed write of the debug file does not change the decision: for  *)
(* valid input the handler emits the document it emits when the write      *)
(* succeeds.                                                               *)
(***************************************************************************)
C4_DebugWriteFailureKeepsDecision ==
  (pc = "done" /\ ValidInvocation /\ ValidInput /\ ~debugWritable) =>
    stdout = <<DecisionWhenLogged>>

(***************************************************************************)
(* C5: when tool_name differs from the guard's target tool, no rule is     *)
(* evaluated and the only document the handler emits is allow with the     *)
(* not-a-matching-tool reason, whatever the command.                       *)
(***************************************************************************)
C5_ToolMismatchAllowsWithoutRules ==
  (ValidInput /\ ~ToolMatches) =>
    /\ evaluated = <<>>
    /\ stdout \in {<<>>, <<HookOutput("allow", NotMatchingReason)>>}
    /\ CompletedNormally => stdout = <<HookOutput("allow", NotMatchingReason)>>

\* a command the registered git rule denies is allowed because the tool is another one
C5_Witness ==
  /\ CompletedNormally
  /\ ValidInput
  /\ ~ToolMatches
  /\ stdin.command = Str(<<"g", "i", "t", " ", "a", "d", "d", " ", "x">>)
  /\ Registered("git")
  /\ evaluated = <<>>
  /\ stdout = <<HookOutput("allow", NotMatchingReason)>>

\* the command field is missing or empty
NoCommand ==
  \/ stdin.tool_input = "absent"
  \/ stdin.command.t = "absent"
  \/ stdin.command = Str(<<>>)

(***************************************************************************)
(* C6: when the tool matches and no registered rule returns a decision,    *)
(* the handler emits allow with the generic reason; a missing or empty     *)
(* command is the empty string, for which no rule of the catalog fires.    *)
(***************************************************************************)
C6_NoOpinionAllows ==
  /\ (Decided /\ Fired = {}) => stdout = <<HookOutput("allow", CommandAllowedReason)>>
  /\ (ValidInput /\ ToolMatches /\ NoCommand) =>
       /\ decisions = <<>>
       /\ \A rule \in RuleCatalog :
            ApplyRule(rule, RuleContextOf(ParsedData(stdin))) = NoDecision

\* rules were evaluated on a missing command and the generic allow was emitted
C6_Witness ==
  /\ Decided
  /\ stdin.tool_input = "absent"
  /\ evaluated = BashRules
  /\ stdout = <<HookOutput("allow", CommandAllowedReason)>>

(***************************************************************************)
(* C7: a command that starts with git add and holds no git commit is       *)
(* denied with a priority of at least 110, whatever the other registered   *)
(* rules return.                                                           *)
(***************************************************************************)
C7_GitAddWithoutCommitDenied ==
  (/\ Decided
   /\ Registered("git") \/ Registered("gitLegacy")
   /\ ReStartsGitAdd(SubmittedCommand)
   /\ ~ReGitCommit(SubmittedCommand)) =>
    \E k \in Fired :
      /\ ResultOf(k).decision = "deny"
      /\ ResultOf(k).priority >= 110
      /\ stdout = <<HookOutput("deny", ResultOf(k).reason)>>

\* a lone git add, denied by the add guard
C7_Witness ==
  /\ Decided
  /\ rulesModule = BashRules
  /\ stdin.command = Str(<<"g", "i", "t", " ", "a", "d", "d", " ", "x">>)
  /\ stdout = <<HookOutput("deny", GitAddWithoutCommitDeny.reason)>>

\* the words of the submitted command
SubmittedWords == splitWhitespace(SubmittedCommand)

\* the command invokes git: its first word is git
InvokesGit == SubmittedWords[1] = <<"g", "i", "t">>

TripsMultiLineCommit ==
  /\ ReGitCommit(SubmittedCommand)
  /\ ReDashM(SubmittedCommand)
  /\ ReNewline(SubmittedCommand)

TripsAddWithoutCommit == ReStartsGitAdd(SubmittedCommand) /\ ~ReGitCommit(SubmittedCommand)

\* the handler decided with the bash rules loaded
DecidedByBashRules ==
  Decided /\ argv = BashPreToolUse /\ rulesModule \in {BashRules, BashRulesLegacy}

(***************************************************************************)
(* C8: a git command whose first token after git that is no global flag    *)
(* (flags that take an argument skipped with their values) is in the       *)
(* read-only list, and which trips neither the add-without-commit nor the  *)
(* multi-line-commit rule, gets the implicit allow.                        *)
(***************************************************************************)
C8_ReadOnlyAfterGlobalFlagsAllowed ==
  (/\ DecidedByBashRules
   /\ InvokesGit
   /\ extractFromParts(SubmittedWords, 2) \in GIT_READONLY_COMMANDS
   /\ ~TripsMultiLineCommit
   /\ ~TripsAddWithoutCommit) =>
    stdout = <<HookOutput("allow", CommandAllowedReason)>>

(***************************************************************************)
(* C9: a git invocation whose subcommand is not in the read-only list,     *)
(* git without a subcommand included, is never allowed: the decision is    *)
(* ask, or the deny of a git rule of higher priority.                      *)
(***************************************************************************)
C9_GitMutationNeverAllowed ==
  (/\ DecidedByBashRules
   /\ InvokesGit
   /\ secondWord(SubmittedCommand) \notin GIT_READONLY_COMMANDS) =>
    \E k \in Fired :
      /\ stdout = <<HookOutput(ResultOf(k).decision, ResultOf(k).reason)>>
      /\ \/ ResultOf(k) = GitMutationAsk
         \/ ResultOf(k).decision = "deny" /\ ResultOf(k).priority > GitMutationAsk.priority

\* the words of a command line, cut at the words && and ;
RECURSIVE SegmentsFrom(_, _, _, _)
SegmentsFrom(words, i, cur, acc) ==
  IF i > Len(words) THEN Append(acc, cur)
  ELSE IF words[i] \in {<<"&", "&">>, <<";">>}
       THEN SegmentsFrom(words, i + 1, <<>>, Append(acc, cur))
  ELSE SegmentsFrom(words, i + 1, Append(cur, words[i]), acc)

Segments == SegmentsFrom(SubmittedWords, 1, <<>>, <<>>)

\* the segment runs git with a subcommand that is not read-only
MutatingGitSegment(seg) ==
  /\ Len(seg) >= 2
  /\ seg[1] = <<"g", "i", "t">>
  /\ extractFromParts(seg, 2) # <<>>
  /\ extractFromParts(seg, 2) \notin GIT_READONLY_COMMANDS

(***************************************************************************)
(* C10: on a command line of simple commands chained with && or ; the      *)
(* decision is ask or deny whenever some segment, the first or a later     *)
(* one, invokes git with a subcommand outside the read-only list.          *)
(***************************************************************************)
C10_ChainedGitMutationNeverAllowed ==
  (/\ DecidedByBashRules
   /\ \A n \in 1..Len(Segments) : Segments[n] # <<>>
   /\ \E n \in 1..Len(Segments) : MutatingGitSegment(Segments[n])) =>
    stdout[1].permissionDecision \in {"ask", "deny"}

\* the decision the handler wrote
EmittedDecision == stdout[1].permissionDecision

(***************************************************************************)
(* C11: a command that holds git commit, a -m flag and a newline is denied *)
(* by the multi-line commit rule, the rule of highest priority, wherever   *)
(* in the command line the git commit stands.                              *)
(***************************************************************************)
C11_MultiLineCommitDeniedAnywhere ==
  (/\ Decided
   /\ argv = BashPreToolUse
   /\ rulesModule = BashRules
   /\ TripsMultiLineCommit) =>
    stdout = <<HookOutput("deny", MultiLineCommitDeny.reason)>>

\* the trimmed command is cd alone or cd followed by white space
IsCdCommand ==
  LET words == SubmittedWords
  IN words # <<>> /\ words[1] = <<"c", "d">>

\* the document of the CD guard
CdGuardOutput == HookOutput("deny", CdDeny.reason)

(***************************************************************************)
(* C12: with the CD guard registered, a command whose first word is cd is  *)
(* denied by it; a command that only begins with the letters cd, or that   *)
(* holds cd inside a subshell, gets no decision from the CD guard.         *)
(***************************************************************************)
C12_CdDeniedOnlyAsFirstWord ==
  (Decided /\ argv = BashPreToolUse /\ Registered("cd")) =>
    IF IsCdCommand THEN stdout = <<CdGuardOutput>>
    ELSE /\ stdout # <<CdGuardOutput>>
         /\ \A k \in 1..Len(rulesModule) : rulesModule[k] = "cd" => ResultOf(k) = NoDecision

C12_Witness ==
  /\ Decided /\ argv = BashPreToolUse /\ Registered("cd")
  /\ SubmittedCommand = <<"c", "d", " ", "s", "r", "c">>
  /\ stdout = <<CdGuardOutput>>

\* a subshell that wraps cd passes the CD guard
C12_WitnessSubshell ==
  /\ Decided /\ argv = BashPreToolUse /\ rulesModule = BashRules
  /\ SubmittedCommand = <<"(", "c", "d", " ", "x", " ", "&", "&", " ", "x", ")">>
  /\ EmittedDecision = "allow"

\* the command runs find with arguments
IsFindCommand ==
  LET words == SubmittedWords
  IN Len(words) >= 2 /\ words[1] = <<"f", "i", "n", "d">>

MentionsNodeModules ==
  includes(SubmittedCommand, <<"n", "o", "d", "e", "_", "m", "o", "d", "u", "l", "e", "s">>)

C13_WitnessDenied ==
  /\ Decided /\ argv = BashPreToolUse /\ rulesModule = BashRules
  /\ IsFindCommand /\ ~MentionsNodeModules
  /\ EmittedDecision = "deny"

\* the rules of the index module of claude/hooks/pretooluse/bash, in any order
BashRuleNames == {"cd", "find", "git"}

\* the first token each of these rules requires
FirstTokenOf(rule) ==
  CASE rule = "cd" -> <<"c", "d">>
    [] rule = "find" -> <<"f", "i", "n", "d">>
    [] rule = "git" -> <<"g", "i", "t">>

\* every order of the rules of r
OrdersOf(r) ==
  {q \in [1..Len(r) -> {r[i] : i \in 1..Len(r)}] : \A i, j \in 1..Len(r) : i # j => q[i] # q[j]}

(***************************************************************************)
(* C28: of the rules cd, find and git, registered in any number and order, *)
(* at most one returns a decision for a command, and only for a command    *)
(* whose first token is the rule's own; so no two decisions ever tie and   *)
(* the document emitted is the one every other order of the same rules     *)
(* would emit.                                                             *)
(***************************************************************************)
C28_AtMostOneRuleFires ==
  (Decided /\ \A i \in 1..Len(rulesModule) : rulesModule[i] \in BashRuleNames) =>
    /\ Cardinality(Fired) <= 1
    /\ \A k \in Fired : SubmittedWords[1] = FirstTokenOf(rulesModule[k])
    /\ \A q \in OrdersOf(rulesModule) :
         stdout = <<finalResponse(collectDecisions(q, RuleContextOf(ParsedData(stdin))))>>

\* the three rules registered in the reverse order; the git rule alone fires
C28_Witness ==
  /\ Decided
  /\ rulesModule = <<"git", "find", "cd">>
  /\ stdin.command = Str(<<"g", "i", "t", " ", "a", "d", "d", " ", "x">>)
  /\ Fired = {1}
  /\ stdout = <<HookOutput("deny", GitAddWithoutCommitDeny.reason)>>

(***************************************************************************)
(* Grep guard: the standalone hook script bash-grep.ts                     *)
(***************************************************************************)
MaxGrepWords == 3

IsLetter(c) ==
  \/ \E k \in 1..Len(LowerLetters) : LowerLetters[k] = c
  \/ \E k \in 1..Len(UpperLetters) : UpperLetters[k] = c

NodeModules == <<"n", "o", "d", "e", "_", "m", "o", "d", "u", "l", "e", "s">>

\* /^grep\s/
ReStartsGrep(s) == MatchLit(s, 1, <<"g", "r", "e", "p">>) /\ Len(s) >= 5 /\ IsSpace(s[5])

\* /\s-[a-zA-Z]*r/
ReShortFlagWithR(s) ==
  \E i \in 1..Len(s) :
    /\ IsSpace(s[i])
    /\ i + 2 <= Len(s)
    /\ s[i + 1] = "-"
    /\ \E k \in (i + 2)..Len(s) :
         /\ s[k] = "r"
         /\ \A j \in (i + 2)..(k - 1) : IsLetter(s[j])

\* /--recursive/
ReLongRecursive(s) == includes(s, <<"-", "-", "r", "e", "c", "u", "r", "s", "i", "v", "e">>)

\* mutant: the recursive flag recognised only as a flag of its own, -r or --recursive
isRecursiveGrepLoneFlag(command) ==
  /\ ReStartsGrep(command)
  /\ \/ \E i \in 1..Len(command) :
          IsSpace(command[i]) /\ MatchLit(command, i + 1, <<"-", "r">>)
     \/ ReLongRecursive(command)

\* /^grep\s/.test(command) && /\s-[a-zA-Z]*r|--recursive/.test(command)
isRecursiveGrep(command) ==
  /\ ReStartsGrep(command)
  /\ (ReShortFlagWithR(command) \/ ReLongRecursive(command))

\* { hookSpecificOutput: { hookEventName }, continue: true, suppressOutput: true }
ContinueOutput ==
  [hookEventName |-> "PreToolUse", continue |-> TRUE, suppressOutput |-> TRUE]

\* { hookSpecificOutput: { hookEventName, permissionDecision, permissionDecisionReason }, systemMessage }
PluginOutput(permissionDecision, reason) ==
  [hookEventName |-> "PreToolUse", permissionDecision |-> permissionDecision,
   permissionDecisionReason |-> reason, systemMessage |-> reason]

GrepDenyReason ==
  <<"Grep Guard: To avoid excessive delays, do not use grep -r without excluding node_modules">>

\* what the script writes for a command
grepGuardOutput(command) ==
  IF ~isRecursiveGrep(command) THEN ContinueOutput
  ELSE IF includes(command, NodeModules) THEN ContinueOutput
  ELSE PluginOutput("deny", GrepDenyReason)

\* the outcomes of (input.tool_input?.command ?? '').trim(): the trimmed command, or
\* <<"throws">> when input is null or command is a value without trim()
grepCommandOutcomes(text) ==
  IF text.root # "object" THEN {<<"throws">>, <<>>}
  ELSE IF text.tool_input # "object" THEN {<<>>}
  ELSE IF text.command.t = "string" THEN {trim(text.command.v)}
  ELSE IF text.command.t = "absent" THEN {<<>>}
  ELSE {<<"throws">>, <<>>}

\* the whole script: JSON.parse of stdin, the command, the tests, the document written
BashGrep ==
  /\ pc = "start"
  /\ input' = stdin
  /\ IF JsonParseThrows(stdin)
       THEN Exit(1, TRUE) /\ UNCHANGED stdout
       ELSE \E command \in grepCommandOutcomes(stdin) :
              IF command = <<"throws">>
                THEN Exit(1, TRUE) /\ UNCHANGED stdout
                ELSE /\ stdout' = Append(stdout, grepGuardOutput(command))
                     /\ Exit(0, FALSE)
  /\ UNCHANGED <<argv, rulesModule, stdin, debugWritable, rules, debugFile, data,
                 evaluated, decisions>>
  /\ UNCHANGED searchVars
  /\ UNCHANGED toolVars

GrepNext == BashGrep

GrepVocabulary ==
  {<<"g", "r", "e", "p">>, <<"-", "r">>, <<"-", "i", "r">>, <<"-", "r", "i">>, <<"-", "i">>,
   <<"-", "R">>, <<"-", "-", "r", "e", "c", "u", "r", "s", "i", "v", "e">>,
   <<"-", "-", "c", "o", "l", "o", "r">>, <<"x">>, <<"|">>, NodeModules}

\* every command of at most n words of the grep vocabulary
GrepCommands(n) == {JoinWords(ws) : ws \in UNION {[1..k -> GrepVocabulary] : k \in 0..n}}

GrepInputs ==
  {Malformed, NonObject,
   Document(Absent, "absent", Absent), Document(Absent, "other", Absent),
   Document(Absent, "object", Absent), Document(Absent, "object", Other),
   Document(Absent, "object", Str(<<" ", "g", "r", "e", "p", "\t", "-", "r", " ", "x", "\n">>))}
  \cup {Document(Str(<<"B", "a", "s", "h">>), "object", Str(c)) : c \in GrepCommands(MaxGrepWords)}

\* the script takes no arguments and loads no rules
GrepInit ==
  /\ NoTools
  /\ InitProcess
  /\ NoSearch
  /\ argv = Invocation(<<>>, "")
  /\ rulesModule = <<>>
  /\ debugWritable = TRUE
  /\ stdin \in GrepInputs

GrepSpec == GrepInit /\ [][GrepNext]_vars

\* the command the script tests
GrepSubmitted == trim(stdin.command.v)

GrepWords == splitWhitespace(GrepSubmitted)

\* a flag word that asks for recursion: -r, a group of short flags with r among them,
\* or --recursive
IsRecursiveFlagWord(w) ==
  \/ w = <<"-", "-", "r", "e", "c", "u", "r", "s", "i", "v", "e">>
  \/ /\ Len(w) >= 2
     /\ w[1] = "-"
     /\ \A k \in 2..Len(w) : IsLetter(w[k])
     /\ \E k \in 2..Len(w) : w[k] = "r"

\* the script ran on a document whose command is a string
GrepDecided ==
  /\ pc = "done"
  /\ stdin.syntax = "json" /\ stdin.root = "object"
  /\ stdin.tool_input = "object" /\ stdin.command.t = "string"

GrepDenied == stdout = <<PluginOutput("deny", GrepDenyReason)>>

C14_WitnessNotRecursive ==
  /\ GrepDecided
  /\ GrepSubmitted = <<"g", "r", "e", "p", " ", "-", "i", " ", "x">>
  /\ stdout = <<ContinueOutput>>

(***************************************************************************)
(* Session transcript search: the lines of a transcript file               *)
(***************************************************************************)

\* a content block { type, text? } as it stands in the JSON text
Block(type, text) == [type |-> type, text |-> text]

\* message.content that is an array of content blocks
Blocks(bs) == [t |-> "blocks", v |-> bs]

\* a line holding a JSON object; every field is Absent, a string, or Other for a value
\* of another JSON type; content is Absent when message or message.content is missing
TranscriptLine(type, content, timestamp, summary, cwd) ==
  [syntax |-> "object", type |-> type, content |-> content, timestamp |-> timestamp,
   summary |-> summary, cwd |-> cwd]

\* a line JSON.parse rejects
MalformedLine ==
  [syntax |-> "malformed", type |-> Absent, content |-> Absent, timestamp |-> Absent,
   summary |-> Absent, cwd |-> Absent]

\* a line of valid JSON that is not an object
NonObjectLine ==
  [syntax |-> "nonobject", type |-> Absent, content |-> Absent, timestamp |-> Absent,
   summary |-> Absent, cwd |-> Absent]

\* an empty line or a line of white space
BlankLine ==
  [syntax |-> "blank", type |-> Absent, content |-> Absent, timestamp |-> Absent,
   summary |-> Absent, cwd |-> Absent]

\* ContentBlockSchema
ContentBlockSchemaAccepts(b) == b.type.t = "string" /\ b.text.t \in {"absent", "string"}

\* ParsedLineSchema.safeParse(...).success
ParsedLineSchemaAccepts(line) ==
  /\ line.syntax = "object"
  /\ line.type.t \in {"absent", "string"}
  /\ \/ line.content.t \in {"absent", "string"}
     \/ /\ line.content.t = "blocks"
        /\ \A k \in 1..Len(line.content.v) : ContentBlockSchemaAccepts(line.content.v[k])
  /\ line.timestamp.t \in {"absent", "string"}
  /\ line.summary.t \in {"absent", "string"}
  /\ line.cwd.t \in {"absent", "string"}

\* what parseLine returns for null
NullParse ==
  [ok |-> FALSE, type |-> Absent, content |-> Absent, timestamp |-> Absent,
   summary |-> Absent, cwd |-> Absent]

\* parseLine: the parsed object, or null for malformed JSON and for a schema violation
parseLine(line) ==
  IF line.syntax \in {"malformed", "blank"} THEN NullParse
  ELSE IF ~ParsedLineSchemaAccepts(line) THEN NullParse
  ELSE [ok |-> TRUE, type |-> line.type, content |-> line.content,
        timestamp |-> line.timestamp, summary |-> line.summary, cwd |-> line.cwd]

\* the type names the tool knows
UserType == <<"u", "s", "e", "r">>
AssistantType == <<"a", "s", "s", "i", "s", "t", "a", "n", "t">>
AgentType == <<"a", "g", "e", "n", "t">>
SummaryType == <<"s", "u", "m", "m", "a", "r", "y">>
ParseErrorType == <<"p", "a", "r", "s", "e", "-", "e", "r", "r", "o", "r">>
TextBlockType == <<"t", "e", "x", "t">>

\* parsed?.type ?? 'parse-error'
typeOf(line) ==
  IF parseLine(line).type.t = "string" THEN parseLine(line).type.v ELSE ParseErrorType

\* getLineType: assistant is renamed to agent for display
getLineType(line) == IF typeOf(line) = AssistantType THEN AgentType ELSE typeOf(line)

\* content.filter((block) => block.type === 'text' && block.text).map((block) => block.text)
RECURSIVE textPartsOf(_)
textPartsOf(blocks) ==
  IF blocks = <<>> THEN <<>>
  ELSE IF /\ Head(blocks).type = Str(TextBlockType)
          /\ Head(blocks).text.t = "string"
          /\ Head(blocks).text.v # <<>>
       THEN <<Head(blocks).text.v>> \o textPartsOf(Tail(blocks))
  ELSE textPartsOf(Tail(blocks))

\* textParts.join(sep)
RECURSIVE join(_, _)
join(parts, sep) ==
  IF parts = <<>> THEN <<>>
  ELSE IF Len(parts) = 1 THEN parts[1]
  ELSE parts[1] \o sep \o join(Tail(parts), sep)

\* mutant: the text of every block that has one, whatever the block's type
extractContentOfAnyBlock(line) ==
  IF parseLine(line).content.t = "string" THEN Str(parseLine(line).content.v)
  ELSE IF parseLine(line).content.t = "blocks"
    THEN LET texts == SelectSeq(parseLine(line).content.v,
                                LAMBDA b : b.text.t = "string" /\ b.text.v # <<>>)
         IN IF texts = <<>> THEN Absent
            ELSE Str(join([k \in 1..Len(texts) |-> texts[k].text.v], <<"\n">>))
  ELSE Absent

\* extractContent: the searchable text of a line as Str(text), or Absent for null
extractContent(line) ==
  IF parseLine(line).content.t = "string" THEN Str(parseLine(line).content.v)
  ELSE IF parseLine(line).content.t = "blocks"
    THEN IF textPartsOf(parseLine(line).content.v) # <<>>
           THEN Str(join(textPartsOf(parseLine(line).content.v), <<"\n">>))
           ELSE Absent
  ELSE Absent

\* value ?? ''
orEmpty(value) == IF value.t = "string" THEN value.v ELSE <<>>

\* a JavaScript truthiness test of a string | null
truthy(value) == value.t = "string" /\ value.v # <<>>

(***************************************************************************)
(* Session transcript search: metadata, context and the scan of one file   *)
(***************************************************************************)

\* the metadata of a file before any line is read
NoMetadata ==
  [cwd |-> Absent, summary |-> Absent, createdAt |-> Absent, lastModifiedAt |-> Absent,
   humanMessageCount |-> 0]

\* mutant: the timestamps are taken from events of every type
metadataStepAnyType(m, parsed) ==
  IF ~parsed.ok THEN m
  ELSE [summary |-> IF parsed.type = Str(SummaryType) /\ truthy(parsed.summary)
                      THEN parsed.summary ELSE m.summary,
        cwd |-> IF ~truthy(m.cwd) /\ truthy(parsed.cwd) THEN parsed.cwd ELSE m.cwd,
        createdAt |-> IF truthy(parsed.timestamp) /\ m.createdAt.t = "absent"
                        THEN parsed.timestamp ELSE m.createdAt,
        lastModifiedAt |-> IF truthy(parsed.timestamp)
                             THEN parsed.timestamp ELSE m.lastModifiedAt,
        humanMessageCount |-> IF parsed.type = Str(UserType) /\ truthy(parsed.content)
                                THEN m.humanMessageCount + 1 ELSE m.humanMessageCount]

\* mutant: the summary of the first summary event is kept
metadataStepFirstSummary(m, parsed) ==
  IF ~parsed.ok THEN m
  ELSE [summary |-> IF parsed.type = Str(SummaryType) /\ truthy(parsed.summary) /\ m.summary.t = "absent"
                      THEN parsed.summary ELSE m.summary,
        cwd |-> IF ~truthy(m.cwd) /\ truthy(parsed.cwd) THEN parsed.cwd ELSE m.cwd,
        createdAt |-> IF /\ parsed.type \in {Str(UserType), Str(AssistantType)}
                         /\ truthy(parsed.timestamp)
                         /\ m.createdAt.t = "absent"
                        THEN parsed.timestamp ELSE m.createdAt,
        lastModifiedAt |-> IF /\ parsed.type \in {Str(UserType), Str(AssistantType)}
                              /\ truthy(parsed.timestamp)
                             THEN parsed.timestamp ELSE m.lastModifiedAt,
        humanMessageCount |-> IF parsed.type = Str(UserType) /\ truthy(parsed.content)
                                THEN m.humanMessageCount + 1 ELSE m.humanMessageCount]

\* one round of the loop of extractSessionMetadata
metadataStep(m, parsed) ==
  IF ~parsed.ok THEN m
  ELSE [summary |-> IF parsed.type = Str(SummaryType) /\ truthy(parsed.summary)
                      THEN parsed.summary ELSE m.summary,
        cwd |-> IF ~truthy(m.cwd) /\ truthy(parsed.cwd) THEN parsed.cwd ELSE m.cwd,
        createdAt |-> IF /\ parsed.type \in {Str(UserType), Str(AssistantType)}
                         /\ truthy(parsed.timestamp)
                         /\ m.createdAt.t = "absent"
                        THEN parsed.timestamp ELSE m.createdAt,
        lastModifiedAt |-> IF /\ parsed.type \in {Str(UserType), Str(AssistantType)}
                              /\ truthy(parsed.timestamp)
                             THEN parsed.timestamp ELSE m.lastModifiedAt,
        humanMessageCount |-> IF parsed.type = Str(UserType) /\ truthy(parsed.content)
                                THEN m.humanMessageCount + 1 ELSE m.humanMessageCount]

RECURSIVE metadataFrom(_, _, _)
metadataFrom(lines, i, m) ==
  IF i > Len(lines) THEN m
  ELSE metadataFrom(lines, i + 1, metadataStep(m, parseLine(lines[i])))

extractSessionMetadata(lines) == metadataFrom(lines, 1, NoMetadata)

\* the escape character; one element of a text, as every character is
ESC == "ESC"

\* colors.newlineFg, colors.reset, colors.dim
newlineFg == <<ESC, "[", "9", "7", ";", "1", "m">>
reset == <<ESC, "[", "0", "m">>
dim == <<ESC, "[", "2", "m">>

\* text.replace(/\n/g, marker)
RECURSIVE replaceNewlines(_, _)
replaceNewlines(text, marker) ==
  IF \A k \in 1..Len(text) : text[k] # "\n" THEN text
  ELSE LET p == CHOOSE k \in 1..Len(text) : text[k] = "\n" /\ \A j \in 1..(k - 1) : text[j] # "\n"
       IN SubSeq(text, 1, p - 1) \o marker \o replaceNewlines(SubSeq(text, p + 1, Len(text)), marker)

\* text.substring(from, to) with JavaScript's 0-based, end-exclusive indices
substring(text, from, to) == SubSeq(text, from + 1, to)

\* truncateLine
truncateLine(line, maxLen) ==
  LET escaped == replaceNewlines(line, newlineFg \o <<"\\", "n">> \o reset \o dim)
  IN IF Len(escaped) <= maxLen THEN escaped
     ELSE substring(escaped, 0, maxLen) \o <<".", ".", ".">>

\* text.indexOf(lit): 0-based, -1 when lit does not occur
indexOf(text, lit) ==
  IF ~includes(text, lit) THEN -1
  ELSE (CHOOSE i \in 1..(Len(text) + 1) :
          MatchLit(text, i, lit) /\ \A k \in 1..(i - 1) : ~MatchLit(text, k, lit)) - 1

Min(a, b) == IF a <= b THEN a ELSE b
Max(a, b) == IF a >= b THEN a ELSE b

\* a ContextLine
ContextLineOf(lines, j) ==
  [lineNumber |-> j, type |-> getLineType(lines[j]),
   content |-> truncateLine(extractContent(lines[j]).v, 150)]

\* mutant: a line without text uses up one of the contextLines places
RECURSIVE contextBeforeCountingEmpty(_, _, _, _)
contextBeforeCountingEmpty(lines, j, contextLines, acc) ==
  IF j < 1 \/ Len(acc) >= contextLines THEN acc
  ELSE IF truthy(extractContent(lines[j]))
    THEN contextBeforeCountingEmpty(lines, j - 1, contextLines, <<ContextLineOf(lines, j)>> \o acc)
  ELSE contextBeforeCountingEmpty(lines, j - 1, contextLines - 1, acc)

\* the backward loop: from line j down, until contextLines lines are collected
RECURSIVE contextBeforeFrom(_, _, _, _)
contextBeforeFrom(lines, j, contextLines, acc) ==
  IF j < 1 \/ Len(acc) >= contextLines THEN acc
  ELSE IF truthy(extractContent(lines[j]))
    THEN contextBeforeFrom(lines, j - 1, contextLines, <<ContextLineOf(lines, j)>> \o acc)
  ELSE contextBeforeFrom(lines, j - 1, contextLines, acc)

\* the forward loop
RECURSIVE contextAfterFrom(_, _, _, _)
contextAfterFrom(lines, j, contextLines, acc) ==
  IF j > Len(lines) \/ Len(acc) >= contextLines THEN acc
  ELSE IF truthy(extractContent(lines[j]))
    THEN contextAfterFrom(lines, j + 1, contextLines, Append(acc, ContextLineOf(lines, j)))
  ELSE contextAfterFrom(lines, j + 1, contextLines, acc)

\* the excerpt around the first occurrence of the search string
matchContextOf(contentToSearch, searchString) ==
  LET matchIndex == indexOf(toLowerCase(contentToSearch), toLowerCase(searchString))
      contextStart == Max(0, matchIndex - 100)
      contextEnd == Min(Len(contentToSearch), matchIndex + Len(searchString) + 200)
      excerpt == replaceNewlines(substring(contentToSearch, contextStart, contextEnd),
                                 newlineFg \o <<"\\", "n">> \o reset)
  IN (IF contextStart > 0 THEN <<".", ".", ".">> ELSE <<>>)
     \o excerpt
     \o (IF contextEnd < Len(contentToSearch) THEN <<".", ".", ".">> ELSE <<>>)

\* let typeFilter = null, and a filter on a list of types
NoFilter == [null |-> TRUE, types |-> <<>>]
TypeFilter(types) == [null |-> FALSE, types |-> types]

\* typeFilter && !typeFilter.includes(type)
filteredOut(filter, type) ==
  ~filter.null /\ ~\E k \in 1..Len(filter.types) : filter.types[k] = type

\* mutant: the comparison without toLowerCase()
matchesSearchCaseSensitive(line, searchString) ==
  includes(orEmpty(extractContent(line)), searchString)

\* contentToSearch.toLowerCase().includes(searchString.toLowerCase())
matchesSearch(line, searchString) ==
  includes(toLowerCase(orEmpty(extractContent(line))), toLowerCase(searchString))

\* the SearchResult of line i
SearchResultOf(file, lines, i, searchString, contextLines) ==
  [sessionFile |-> file.name,
   sessionId |-> file.sessionId,
   metadata |-> extractSessionMetadata(lines),
   lineNumber |-> i,
   type |-> typeOf(lines[i]),
   matchContext |-> matchContextOf(orEmpty(extractContent(lines[i])), searchString),
   contextBefore |-> contextBeforeFrom(lines, i - 1, contextLines, <<>>),
   contextAfter |-> contextAfterFrom(lines, i + 1, contextLines, <<>>)]

\* mutant: a scan that stops at the first line it cannot parse
RECURSIVE scanUntilParseError(_, _, _, _, _, _, _)
scanUntilParseError(file, lines, i, searchString, contextLines, filter, results) ==
  IF i > Len(lines) THEN results
  ELSE IF ~parseLine(lines[i]).ok THEN results
  ELSE IF filteredOut(filter, typeOf(lines[i])) \/ ~matchesSearch(lines[i], searchString)
    THEN scanUntilParseError(file, lines, i + 1, searchString, contextLines, filter, results)
  ELSE scanUntilParseError(file, lines, i + 1, searchString, contextLines, filter,
                           Append(results, SearchResultOf(file, lines, i, searchString, contextLines)))

\* the loop over the lines of searchSessionFile
RECURSIVE scanFrom(_, _, _, _, _, _, _)
scanFrom(file, lines, i, searchString, contextLines, filter, results) ==
  IF i > Len(lines) THEN results
  ELSE IF filteredOut(filter, typeOf(lines[i])) THEN
    scanFrom(file, lines, i + 1, searchString, contextLines, filter, results)
  ELSE IF matchesSearch(lines[i], searchString) THEN
    scanFrom(file, lines, i + 1, searchString, contextLines, filter,
             Append(results, SearchResultOf(file, lines, i, searchString, contextLines)))
  ELSE scanFrom(file, lines, i + 1, searchString, contextLines, filter, results)

\* content.split('\n').filter((l) => l.trim())
nonBlankLines(file) == SelectSeq(file.lines, LAMBDA l : l.syntax # "blank")

\* mutant: the role filter is applied to the lines before metadata and context are taken
searchSessionFileOfFilteredLines(file, searchString, contextLines, filter) ==
  scanFrom(file, SelectSeq(nonBlankLines(file), LAMBDA l : ~filteredOut(filter, typeOf(l))),
           1, searchString, contextLines, filter, <<>>)

searchSessionFile(file, searchString, contextLines, filter) ==
  scanFrom(file, nonBlankLines(file), 1, searchString, contextLines, filter, <<>>)

(***************************************************************************)
(* Session transcript search: main                                         *)
(***************************************************************************)

\* a number | null: null, NaN, or a number
Null == [t |-> "null", v |-> 0]
NaN == [t |-> "NaN", v |-> 0]
Num(n) == [t |-> "number", v |-> n]

DigitValue(c) ==
  CASE c = "0" -> 0 [] c = "1" -> 1 [] c = "2" -> 2 [] c = "3" -> 3 [] c = "4" -> 4
    [] c = "5" -> 5 [] c = "6" -> 6 [] c = "7" -> 7 [] c = "8" -> 8 [] c = "9" -> 9

RECURSIVE parseDigits(_, _)
parseDigits(text, n) ==
  IF text = <<>> \/ Head(text) \notin Digits THEN n
  ELSE parseDigits(Tail(text), 10 * n + DigitValue(Head(text)))

\* Number.parseInt(text, 10) of an unsigned text: its leading digits, NaN without any
parseInt(text) ==
  IF trimStart(text) = <<>> \/ Head(trimStart(text)) \notin Digits THEN NaN
  ELSE Num(parseDigits(trimStart(text), 0))

\* the Options parseArgs starts from
DefaultOptions ==
  [jsonOutput |-> FALSE, sessionsOnly |-> FALSE, userOnly |-> FALSE,
   assistantOnly |-> FALSE, days |-> Null, searchString |-> Absent]

\* the loop of parseArgs from argument i on
RECURSIVE parseArgsFrom(_, _, _)
parseArgsFrom(as, i, result) ==
  IF i > Len(as) THEN result
  ELSE IF as[i] = <<"-", "-", "j", "s", "o", "n">>
    THEN parseArgsFrom(as, i + 1, [result EXCEPT !.jsonOutput = TRUE])
  ELSE IF as[i] = <<"-", "-", "s", "e", "s", "s", "i", "o", "n", "s", "-", "o", "n", "l", "y">>
    THEN parseArgsFrom(as, i + 1, [result EXCEPT !.sessionsOnly = TRUE])
  ELSE IF as[i] = <<"-", "-", "u", "s", "e", "r">>
    THEN parseArgsFrom(as, i + 1, [result EXCEPT !.userOnly = TRUE])
  ELSE IF as[i] = <<"-", "-", "a", "s", "s", "i", "s", "t", "a", "n", "t">>
    THEN parseArgsFrom(as, i + 1, [result EXCEPT !.assistantOnly = TRUE])
  ELSE IF as[i] = <<"-", "-", "d", "a", "y", "s">> /\ i + 1 <= Len(as)
    THEN parseArgsFrom(as, i + 2, [result EXCEPT !.days = parseInt(as[i + 1])])
  ELSE IF ~startsWith(as[i], <<"-", "-">>)
    THEN parseArgsFrom(as, i + 1, [result EXCEPT !.searchString = Str(as[i])])
  ELSE parseArgsFrom(as, i + 1, result)

parseArgs(as) == parseArgsFrom(as, 1, DefaultOptions)

\* mutant: a filter that lets every type through
buildTypeFilterNone(o) == NoFilter

\* the type filter main builds from the options
buildTypeFilter(o) ==
  IF o.userOnly /\ ~o.assistantOnly THEN TypeFilter(<<UserType>>)
  ELSE IF o.assistantOnly /\ ~o.userOnly THEN TypeFilter(<<AgentType>>)
  ELSE IF o.userOnly /\ o.assistantOnly THEN TypeFilter(<<UserType, AgentType>>)
  ELSE NoFilter

\* the usage text main writes to stdout
UsageText == [line |-> "usage"]

\* main up to the search: the usage text without arguments, the error without a search
\* string, the type filter
SearchStart ==
  /\ pc = "start"
  /\ IF Len(args) = 0
       THEN /\ stdout' = Append(stdout, UsageText)
            /\ pc' = "done"
            /\ exitCode' = 1
            /\ UNCHANGED <<stderr, opts, typeFilter>>
     ELSE IF ~truthy(parseArgs(args).searchString)
       THEN /\ opts' = parseArgs(args)
            /\ Exit(1, TRUE)
            /\ UNCHANGED <<stdout, typeFilter>>
     ELSE /\ opts' = parseArgs(args)
          /\ typeFilter' = buildTypeFilter(parseArgs(args))
          /\ stderr' = TRUE
          /\ pc' = "discover"
          /\ UNCHANGED <<stdout, exitCode>>
  /\ UNCHANGED <<argv, rulesModule, stdin, debugWritable, rules, input, debugFile, data,
                 evaluated, decisions>>
  /\ UNCHANGED <<args, projectsDir, sessionFiles, scanned, allResults, sessionsWithMatches>>
  /\ UNCHANGED toolVars

\* entry.name.endsWith('.jsonl')
endsWith(text, suffix) ==
  Len(text) >= Len(suffix) /\ MatchLit(text, Len(text) - Len(suffix) + 1, suffix)

JsonlSuffix == <<".", "j", "s", "o", "n", "l">>

\* basename(name, '.jsonl')
basename(name) ==
  IF endsWith(name, JsonlSuffix) /\ Len(name) > Len(JsonlSuffix)
    THEN SubSeq(name, 1, Len(name) - Len(JsonlSuffix))
    ELSE name

\* stat.mtimeMs < cutoffTime, with the age of the file and the window in days; a NaN
\* window compares false
olderThan(entry, days) == days.t = "number" /\ entry.age > days.v

\* the test of walkDir on one file entry
keptByWalk(entry, days) ==
  /\ endsWith(entry.name, JsonlSuffix)
  /\ ~startsWith(basename(entry.name), <<"a", "g", "e", "n", "t", "-">>)
  /\ ~olderThan(entry, days)

\* findAllSessionFiles: fatal without the projects directory
Discover ==
  /\ pc = "discover"
  /\ IF ~projectsDir.exists
       THEN Exit(1, TRUE) /\ UNCHANGED sessionFiles
       ELSE /\ sessionFiles' = SelectSeq(projectsDir.entries, LAMBDA e : keptByWalk(e, opts.days))
            /\ pc' = "scan"
            /\ UNCHANGED <<stderr, exitCode>>
  /\ UNCHANGED <<argv, rulesModule, stdin, debugWritable, rules, input, debugFile, data,
                 evaluated, decisions, stdout>>
  /\ UNCHANGED <<args, projectsDir, opts, typeFilter, scanned, allResults, sessionsWithMatches>>
  /\ UNCHANGED toolVars

\* the file as searchSessionFile sees it
SessionFileOf(entry) ==
  [name |-> entry.name, sessionId |-> basename(entry.name), lines |-> entry.lines]

\* sessionsWithMatches.add(id) on a Set that keeps insertion order
setAdd(ids, id) == IF \E k \in 1..Len(ids) : ids[k] = id THEN ids ELSE Append(ids, id)

\* one round of the loop over the session files; readFileSync throws on a file that
\* cannot be read and nothing catches it
ScanFile ==
  /\ pc = "scan"
  /\ scanned < Len(sessionFiles)
  /\ LET entry == sessionFiles[scanned + 1]
         results == searchSessionFile(SessionFileOf(entry), opts.searchString.v, 2, typeFilter)
     IN IF ~entry.readable
          THEN Exit(1, TRUE) /\ UNCHANGED <<scanned, allResults, sessionsWithMatches>>
          ELSE /\ scanned' = scanned + 1
               /\ allResults' = allResults \o results
               /\ sessionsWithMatches' =
                    IF Len(results) > 0 THEN setAdd(sessionsWithMatches, results[1].sessionId)
                    ELSE sessionsWithMatches
               /\ UNCHANGED <<pc, stderr, exitCode>>
  /\ UNCHANGED <<argv, rulesModule, stdin, debugWritable, rules, input, debugFile, data,
                 evaluated, decisions, stdout>>
  /\ UNCHANGED <<args, projectsDir, opts, typeFilter, sessionFiles>>
  /\ UNCHANGED toolVars

(***************************************************************************)
(* Session transcript search: output                                       *)
(***************************************************************************)

\* colors.matchBg, colors.matchFg
matchBg == <<ESC, "[", "4", "8", ";", "5", ";", "2", "7", "m">>
matchFg == <<ESC, "[", "9", "7", "m">>

\* highlightMatch
highlightMatch(text, searchString) ==
  LET index == indexOf(toLowerCase(text), toLowerCase(searchString))
  IN IF index = -1 THEN text
     ELSE substring(text, 0, index) \o matchBg \o matchFg
          \o substring(text, index, Min(Len(text), index + Len(searchString)))
          \o reset
          \o substring(text, Min(Len(text), index + Len(searchString)), Len(text))

\* a.localeCompare(b) < 0 on texts of digits, the empty text first
RECURSIVE localeLess(_, _)
localeLess(a, b) ==
  IF b = <<>> THEN FALSE
  ELSE IF a = <<>> THEN TRUE
  ELSE IF Head(a) = Head(b) THEN localeLess(Tail(a), Tail(b))
  ELSE DigitValue(Head(a)) < DigitValue(Head(b))

\* the sessions of the results in order of first appearance, as resultsBySession keeps them
RECURSIVE sessionIdsOf(_, _)
sessionIdsOf(results, ids) ==
  IF results = <<>> THEN ids
  ELSE sessionIdsOf(Tail(results), setAdd(ids, Head(results).sessionId))

\* resultsBySession.get(id): the metadata of the first result and all results of the session
SessionGroup(results, id) ==
  LET own == SelectSeq(results, LAMBDA r : r.sessionId = id)
  IN [sessionId |-> id, metadata |-> own[1].metadata, results |-> own]

\* insertion of a group into groups sorted by createdAt ?? '', after its equals
RECURSIVE insertByCreated(_, _)
insertByCreated(sorted, g) ==
  IF sorted = <<>> THEN <<g>>
  ELSE IF localeLess(orEmpty(g.metadata.createdAt), orEmpty(Head(sorted).metadata.createdAt))
    THEN <<g>> \o sorted
  ELSE <<Head(sorted)>> \o insertByCreated(Tail(sorted), g)

\* [...resultsBySession.entries()].sort(...): a stable sort
RECURSIVE sortByCreated(_, _)
sortByCreated(groups, sorted) ==
  IF groups = <<>> THEN sorted
  ELSE sortByCreated(Tail(groups), insertByCreated(sorted, Head(groups)))

\* mutant: the sessions in the order of their first result
sessionsInDiscoveryOrder(results) ==
  LET ids == sessionIdsOf(results, <<>>)
  IN [k \in 1..Len(ids) |-> SessionGroup(results, ids[k])]

sortedSessions(results) ==
  LET ids == sessionIdsOf(results, <<>>)
  IN sortByCreated([k \in 1..Len(ids) |-> SessionGroup(results, ids[k])], <<>>)

\* new Date(timestamp).toLocaleString(), or 'unknown'
localeStringOf(timestamp) ==
  IF truthy(timestamp) THEN [toLocaleString |-> timestamp.v] ELSE [toLocaleString |-> <<"unknown">>]

\* the lines written for one result of the report
ResultLines(result, searchString) ==
  <<[line |-> "result", lineNumber |-> result.lineNumber, type |-> result.type]>>
  \o [k \in 1..Len(result.contextBefore) |-> [line |-> "context", ctx |-> result.contextBefore[k]]]
  \o <<[line |-> "match", lineNumber |-> result.lineNumber, type |-> result.type,
        content |-> highlightMatch(result.matchContext, searchString)]>>
  \o [k \in 1..Len(result.contextAfter) |-> [line |-> "context", ctx |-> result.contextAfter[k]]]

RECURSIVE ResultsLines(_, _)
ResultsLines(results, searchString) ==
  IF results = <<>> THEN <<>>
  ELSE ResultLines(Head(results), searchString) \o ResultsLines(Tail(results), searchString)

\* the lines written for one session of the report
SessionLines(group, searchString) ==
  <<[line |-> "header", cwd |-> IF group.metadata.cwd.t = "string" THEN group.metadata.cwd.v ELSE <<"~">>,
     sessionId |-> group.sessionId],
    [line |-> "metadata", created |-> localeStringOf(group.metadata.createdAt),
     modified |-> localeStringOf(group.metadata.lastModifiedAt),
     messages |-> group.metadata.humanMessageCount],
    [line |-> "summary",
     summary |-> IF group.metadata.summary.t = "string" THEN group.metadata.summary.v
                 ELSE <<"(no summary)">>]>>
  \o ResultsLines(group.results, searchString)

RECURSIVE ReportLines(_, _)
ReportLines(groups, searchString) ==
  IF groups = <<>> THEN <<>>
  ELSE SessionLines(Head(groups), searchString) \o ReportLines(Tail(groups), searchString)

\* what main writes to stdout after the scan, in each of the four output modes
searchOutput(o, results, ids) ==
  IF o.sessionsOnly /\ o.jsonOutput THEN <<[line |-> "json", value |-> ids]>>
  ELSE IF o.sessionsOnly THEN [k \in 1..Len(ids) |-> [line |-> "sessionId", value |-> ids[k]]]
  ELSE IF o.jsonOutput THEN <<[line |-> "json", value |-> results]>>
  ELSE ReportLines(sortedSessions(results), o.searchString.v)

\* the output of main once every file is searched
WriteOutput ==
  /\ pc = "scan"
  /\ scanned = Len(sessionFiles)
  /\ stdout' = stdout \o searchOutput(opts, allResults, sessionsWithMatches)
  /\ stderr' = TRUE
  /\ pc' = "done"
  /\ exitCode' = 0
  /\ UNCHANGED <<argv, rulesModule, stdin, debugWritable, rules, input, debugFile, data,
                 evaluated, decisions>>
  /\ UNCHANGED searchVars
  /\ UNCHANGED toolVars

SearchNext ==
  \/ SearchStart
  \/ Discover
  \/ ScanFile
  \/ WriteOutput

(***************************************************************************)
(* Session transcript search: the transcripts and invocations drawn        *)
(***************************************************************************)
MaxLines == 3

MaxContextLines == 5

Hello == <<"h", "e", "l", "l", "o">>
World == <<"W", "O", "R", "L", "D">>
HelloWorld == <<"H", "e", "l", "l", "o", " ", "w", "o", "r", "l", "d">>
HelloUniverse == <<"h", "e", "l", "l", "o", " ", "u", "n", "i", "v", "e", "r", "s", "e">>
Bye == <<"b", "y", "e">>

\* a summary event; its summary text is no message content
SummaryLine == TranscriptLine(Str(SummaryType), Absent, Absent, Str(<<"h", "e", "l", "l", "o", " ", "s", "u", "m", "m", "a", "r", "y">>), Absent)

\* a user event with string content
UserHello == TranscriptLine(Str(UserType), Str(HelloWorld), Str(<<"1">>), Absent, Str(<<"/", "w">>))

UserBye == TranscriptLine(Str(UserType), Str(Bye), Str(<<"2">>), Absent, Absent)

\* an assistant event with one text block
AssistantHello ==
  TranscriptLine(Str(AssistantType), Blocks(<<Block(Str(TextBlockType), Str(HelloUniverse))>>),
                 Str(<<"3">>), Absent, Absent)

\* an assistant event with a tool-use block, a text block, an empty text block and a
\* text block that holds the search string
AssistantMixed ==
  TranscriptLine(Str(AssistantType),
                 Blocks(<<Block(Str(<<"t", "o", "o", "l", "_", "u", "s", "e">>), Str(Hello)),
                          Block(Str(TextBlockType), Str(Bye)),
                          Block(Str(TextBlockType), Str(<<>>)),
                          Block(Str(TextBlockType), Str(Hello))>>),
                 Absent, Absent, Absent)

\* a user event that carries only a tool result
UserToolResult ==
  TranscriptLine(Str(UserType), Blocks(<<Block(Str(<<"t", "o", "o", "l", "_", "r", "e", "s", "u", "l", "t">>), Str(HelloWorld))>>),
                 Str(<<"4">>), Absent, Absent)

\* an event without a type whose content holds the search string
TypelessHello == TranscriptLine(Absent, Str(HelloWorld), Absent, Absent, Absent)

\* an object the schema rejects: its type is not a string
SchemaViolation == TranscriptLine(Other, Str(HelloWorld), Absent, Absent, Absent)

\* a user event whose content is the empty string
UserEmpty == TranscriptLine(Str(UserType), Str(<<>>), Absent, Absent, Absent)

LineCatalog ==
  {SummaryLine, UserHello, AssistantHello, AssistantMixed, UserToolResult,
   TypelessHello, MalformedLine, BlankLine}

\* a line with a match, a line with other text, a line without text
ContextCatalog == {UserHello, UserBye, UserToolResult}

\* every file of at most n lines of a catalog
Transcripts(catalog, n) == UNION {[1..k -> catalog] : k \in 0..n}

\* a transcript file under the projects directory
Entry(name, age, readable, lines) ==
  [name |-> name, age |-> age, readable |-> readable, lines |-> lines]

Directory(entries) == [exists |-> TRUE, entries |-> entries]

MissingDirectory == [exists |-> FALSE, entries |-> <<>>]

\* the role filters, with the search string before, between or after the flags
FilterArgs ==
  {<<Hello>>,
   <<<<"-", "-", "u", "s", "e", "r">>, Hello>>,
   <<Hello, <<"-", "-", "a", "s", "s", "i", "s", "t", "a", "n", "t">>>>,
   <<<<"-", "-", "u", "s", "e", "r">>, Hello, <<"-", "-", "a", "s", "s", "i", "s", "t", "a", "n", "t">>>>}

\* invocations of every output mode, with and without a search string
ArgShapes ==
  FilterArgs \cup
  {<<>>,
   <<<<"-", "-", "u", "s", "e", "r">>>>,
   <<<<>>>>,
   <<World>>,
   <<Hello, World>>,
   <<Hello, <<"-", "-", "j", "s", "o", "n">>>>,
   <<<<"-", "-", "s", "e", "s", "s", "i", "o", "n", "s", "-", "o", "n", "l", "y">>, Hello>>,
   <<<<"-", "-", "j", "s", "o", "n">>, <<"-", "-", "s", "e", "s", "s", "i", "o", "n", "s", "-", "o", "n", "l", "y">>, World>>,
   <<<<"-", "-", "d", "a", "y", "s">>, <<"7">>, Hello>>,
   <<<<"-", "-", "d", "a", "y", "s">>, <<"x">>, Hello>>,
   <<Hello, <<"-", "-", "d", "a", "y", "s">>>>,
   <<<<"-", "-", "u", "n", "k", "n", "o", "w", "n">>, Hello>>}

\* the three-line transcript: a summary, a user event, an assistant event
ThreeLines == <<SummaryLine, UserHello, AssistantHello>>

\* project directories: missing, empty, and with sessions old and recent, a subagent
\* transcript, a file of another kind and a file that cannot be read
SampleDirectories ==
  {MissingDirectory,
   Directory(<<>>),
   Directory(<<Entry(<<"s", "1", ".", "j", "s", "o", "n", "l">>, 0, TRUE, ThreeLines)>>),
   Directory(<<Entry(<<"s", "2", ".", "j", "s", "o", "n", "l">>, 0, TRUE, <<AssistantHello, SchemaViolation, NonObjectLine, UserEmpty>>),
               Entry(<<"a", "g", "e", "n", "t", "-", "a", "1", ".", "j", "s", "o", "n", "l">>, 0, TRUE, ThreeLines),
               Entry(<<"n", "o", "t", "e", "s", ".", "t", "x", "t">>, 0, TRUE, ThreeLines),
               Entry(<<"s", "4", ".", "j", "s", "o", "n", "l">>, 30, TRUE, ThreeLines),
               Entry(<<"s", "3", ".", "j", "s", "o", "n", "l">>, 0, TRUE, <<TypelessHello, UserBye>>)>>),
   Directory(<<Entry(<<"s", "1", ".", "j", "s", "o", "n", "l">>, 0, TRUE, ThreeLines),
               Entry(<<"s", "2", ".", "j", "s", "o", "n", "l">>, 0, FALSE, ThreeLines)>>)}

\* the state of the process before main runs
SearchProcess ==
  /\ InitProcess
  /\ NoTools
  /\ argv = Invocation(<<>>, "")
  /\ rulesModule = <<>>
  /\ stdin = NoText
  /\ debugWritable = TRUE
  /\ opts = DefaultOptions
  /\ typeFilter = NoFilter
  /\ sessionFiles = <<>>
  /\ scanned = 0
  /\ allResults = <<>>
  /\ sessionsWithMatches = <<>>

\* every transcript of the catalog under every role filter
InitTranscripts ==
  /\ args \in FilterArgs
  /\ projectsDir \in {Directory(<<Entry(<<"s", "1", ".", "j", "s", "o", "n", "l">>, 0, TRUE, lines)>>) :
                        lines \in Transcripts(LineCatalog, MaxLines)}

\* longer transcripts of lines with and without text
InitContext ==
  /\ args \in {<<Hello>>, <<<<"-", "-", "u", "s", "e", "r">>, Hello>>}
  /\ projectsDir \in {Directory(<<Entry(<<"s", "1", ".", "j", "s", "o", "n", "l">>, 0, TRUE, lines)>>) :
                        lines \in Transcripts(ContextCatalog, MaxContextLines)}

\* every invocation on the sample directories
InitInvocations ==
  /\ args \in ArgShapes
  /\ projectsDir \in SampleDirectories

SearchInit == SearchProcess /\ (InitTranscripts \/ InitContext \/ InitInvocations)

SearchSpec == SearchInit /\ [][SearchNext]_vars

(***************************************************************************)
(* Vocabulary of the properties of the session search                      *)
(***************************************************************************)

\* main searched every file and wrote its output
Searched == pc = "done" /\ exitCode = 0

\* the flags on the command line
UserFlag == \E k \in 1..Len(args) : args[k] = <<"-", "-", "u", "s", "e", "r">>

AssistantFlag == \E k \in 1..Len(args) : args[k] = <<"-", "-", "a", "s", "s", "i", "s", "t", "a", "n", "t">>

\* the search string of the run
SearchString == opts.searchString.v

\* the non-empty lines of the k-th searched file
LinesOf(k) == SelectSeq(sessionFiles[k].lines, LAMBDA l : l.syntax # "blank")

\* the results reported for the k-th searched file, in the order they were pushed
ResultsOf(k) == SelectSeq(allResults, LAMBDA r : r.sessionFile = sessionFiles[k].name)

\* text holds lit at some position, letters compared without regard to case
ContainsIgnoringCase(text, lit) ==
  \E o \in 0..Len(text) :
    /\ o + Len(lit) <= Len(text)
    /\ \A j \in 1..Len(lit) : toLowerCaseChar(text[o + j]) = toLowerCaseChar(lit[j])

\* the line numbers of the k-th file whose extracted text holds the search string and
\* whose type is one of types
MatchingLines(k, types) ==
  {i \in 1..Len(LinesOf(k)) :
     /\ ContainsIgnoringCase(orEmpty(extractContent(LinesOf(k)[i])), SearchString)
     /\ typeOf(LinesOf(k)[i]) \in types}

\* every type a line can have
AllTypes ==
  {typeOf(l) : l \in LineCatalog \cup ContextCatalog \cup {SchemaViolation, NonObjectLine, UserEmpty}}

\* the line numbers of results, in result order
LineNumbers(results) == [n \in 1..Len(results) |-> results[n].lineNumber]

\* results holds one result for each line of the set, in ascending line order
ExactlyTheLines(results, lineSet) ==
  /\ {results[n].lineNumber : n \in 1..Len(results)} = lineSet
  /\ \A m, n \in 1..Len(results) : m < n => results[m].lineNumber < results[n].lineNumber

(***************************************************************************)
(* C15: without a role filter, the results of a file are one result for    *)
(* each non-empty line whose extracted text holds the search string, case  *)
(* ignored, and none for any other line, in ascending line order.          *)
(***************************************************************************)
C15_UnfilteredResultsAreTheMatchingLines ==
  (Searched /\ ~UserFlag /\ ~AssistantFlag) =>
    \A k \in 1..Len(sessionFiles) : ExactlyTheLines(ResultsOf(k), MatchingLines(k, AllTypes))

\* the three-line transcript searched for hello gives two results
C15_Witness ==
  /\ Searched /\ ~UserFlag /\ ~AssistantFlag
  /\ Len(sessionFiles) = 1
  /\ sessionFiles[1].lines = ThreeLines
  /\ SearchString = Hello
  /\ LineNumbers(allResults) = <<2, 3>>

(***************************************************************************)
(* C16: with --assistant alone the results are the matching events of type *)
(* assistant; with --user and --assistant they are the matching events of  *)
(* type user or assistant.                                                 *)
(***************************************************************************)
C16_AssistantFilterKeepsAssistantEvents ==
  (Searched /\ AssistantFlag) =>
    \A k \in 1..Len(sessionFiles) :
      ExactlyTheLines(ResultsOf(k),
                      MatchingLines(k, IF UserFlag THEN {UserType, AssistantType}
                                       ELSE {AssistantType}))

(***************************************************************************)
(* C17: with --user alone every result is an event of type user, and every *)
(* user event whose extracted text holds the search string is a result.    *)
(***************************************************************************)
C17_UserFilterKeepsUserEvents ==
  (Searched /\ UserFlag /\ ~AssistantFlag) =>
    /\ \A n \in 1..Len(allResults) : allResults[n].type = UserType
    /\ \A k \in 1..Len(sessionFiles) :
         ExactlyTheLines(ResultsOf(k), MatchingLines(k, {UserType}))

\* the three-line transcript searched with --user gives the user event alone
C17_Witness ==
  /\ Searched /\ UserFlag /\ ~AssistantFlag
  /\ Len(sessionFiles) = 1
  /\ sessionFiles[1].lines = ThreeLines
  /\ LineNumbers(allResults) = <<2>>
  /\ allResults[1].type = UserType

\* what identifies a match: its line, its type and its excerpt
Matches(results) ==
  {[lineNumber |-> results[n].lineNumber, type |-> results[n].type,
    matchContext |-> results[n].matchContext] : n \in 1..Len(results)}

\* the results of the k-th file after its p-th non-empty line is replaced by malformed text
ResultsWithMalformed(k, p) ==
  searchSessionFile([SessionFileOf(sessionFiles[k]) EXCEPT
                       !.lines = [LinesOf(k) EXCEPT ![p] = MalformedLine]],
                    SearchString, 2, typeFilter)

(***************************************************************************)
(* C18: a malformed line does not abort the scan: replacing any one line   *)
(* of a file by malformed text leaves the matches on all other lines as    *)
(* they were, and the malformed line, of type parse-error, is no match.    *)
(***************************************************************************)
C18_MalformedLineKeepsOtherMatches ==
  Searched =>
    /\ typeOf(MalformedLine) = ParseErrorType
    /\ \A k \in 1..Len(sessionFiles) :
         /\ \A n \in 1..Len(ResultsOf(k)) : LinesOf(k)[ResultsOf(k)[n].lineNumber] # MalformedLine
         /\ \A p \in 1..Len(LinesOf(k)) :
              Matches(ResultsWithMalformed(k, p)) =
                {m \in Matches(ResultsOf(k)) : m.lineNumber # p}

\* a match is found on a line after a malformed line
C18_Witness ==
  /\ Searched
  /\ \E k \in 1..Len(sessionFiles) :
       \E p \in 1..Len(LinesOf(k)) :
         /\ LinesOf(k)[p] = MalformedLine
         /\ \E n \in 1..Len(ResultsOf(k)) : ResultsOf(k)[n].lineNumber > p

\* the text blocks of an array that carry text, in block order
TextBlocksOf(blocks) ==
  SelectSeq(blocks, LAMBDA b : b.type = Str(TextBlockType) /\ b.text.t = "string" /\ b.text.v # <<>>)

\* the text of the first n blocks, a newline between two blocks
RECURSIVE NewlineJoined(_, _)
NewlineJoined(blocks, n) ==
  IF n = 0 THEN <<>>
  ELSE IF n = 1 THEN blocks[1].text.v
  ELSE NewlineJoined(blocks, n - 1) \o <<"\n">> \o blocks[n].text.v

\* the searchable text of an event: its string content, or the joined text of its text
\* blocks; Absent for a line that is no event or has neither
ExpectedText(line) ==
  IF line.syntax # "object" \/ ~ParsedLineSchemaAccepts(line) THEN Absent
  ELSE IF line.content.t = "string" THEN Str(line.content.v)
  ELSE IF line.content.t = "blocks" /\ TextBlocksOf(line.content.v) # <<>>
    THEN Str(NewlineJoined(TextBlocksOf(line.content.v), Len(TextBlocksOf(line.content.v))))
  ELSE Absent

HasText(k, j) == orEmpty(ExpectedText(LinesOf(k)[j])) # <<>>

\* the nearest (at most 2) lines with text before line i, and after it
NearestBefore(k, i) ==
  {j \in 1..(i - 1) :
     HasText(k, j) /\ Cardinality({h \in (j + 1)..(i - 1) : HasText(k, h)}) < 2}

NearestAfter(k, i) ==
  {j \in (i + 1)..Len(LinesOf(k)) :
     HasText(k, j) /\ Cardinality({h \in (i + 1)..(j - 1) : HasText(k, h)}) < 2}

\* context holds one entry for each line of the set, in ascending line order
ContextIsTheLines(context, lineSet) ==
  /\ {context[n].lineNumber : n \in 1..Len(context)} = lineSet
  /\ \A m, n \in 1..Len(context) : m < n => context[m].lineNumber < context[n].lineNumber

(***************************************************************************)
(* C20: for a match at line i, contextBefore is the nearest (at most 2)    *)
(* lines before i that have non-empty extractable text and contextAfter    *)
(* the nearest (at most 2) such lines after i, each in ascending line      *)
(* order; a line without text is never included and never counts toward    *)
(* the limit.                                                              *)
(***************************************************************************)
C20_ContextIsNearestLinesWithText ==
  Searched =>
    \A k \in 1..Len(sessionFiles) :
      \A n \in 1..Len(ResultsOf(k)) :
        /\ ContextIsTheLines(ResultsOf(k)[n].contextBefore,
                             NearestBefore(k, ResultsOf(k)[n].lineNumber))
        /\ ContextIsTheLines(ResultsOf(k)[n].contextAfter,
                             NearestAfter(k, ResultsOf(k)[n].lineNumber))

\* a match whose neighbour has no text takes its two context lines from further away,
\* and leaves a third line with text out
C20_Witness ==
  /\ Searched
  /\ \E k \in 1..Len(sessionFiles) :
       \E n \in 1..Len(ResultsOf(k)) :
         LET i == ResultsOf(k)[n].lineNumber
         IN /\ i = 5
            /\ ~HasText(k, 4)
            /\ HasText(k, 1)
            /\ [m \in 1..Len(ResultsOf(k)[n].contextBefore) |->
                  ResultsOf(k)[n].contextBefore[m].lineNumber] = <<2, 3>>

(***************************************************************************)
(* Session transcript search: transcripts drawn for the session metadata   *)
(***************************************************************************)
MaxMetadataLines == 3

SystemType == <<"s", "y", "s", "t", "e", "m">>

\* summary events: two with different texts, one of them with a timestamp, and one
\* whose summary is the empty string
SummaryA == TranscriptLine(Str(SummaryType), Absent, Absent, Str(<<"a">>), Absent)
SummaryB == TranscriptLine(Str(SummaryType), Absent, Str(<<"8">>), Str(<<"b">>), Absent)
SummaryEmpty == TranscriptLine(Str(SummaryType), Absent, Absent, Str(<<>>), Absent)

\* a system event with a timestamp and a summary field
SystemEvent == TranscriptLine(Str(SystemType), Str(Hello), Str(<<"9">>), Str(<<"s">>), Absent)

\* a line the schema rejects that has a timestamp and a summary
StampedViolation == TranscriptLine(Other, Str(Hello), Str(<<"7">>), Str(<<"v">>), Absent)

\* a user event whose timestamp is the empty string
UserUnstamped == TranscriptLine(Str(UserType), Str(Hello), Str(<<>>), Absent, Absent)

MetadataCatalog ==
  {SummaryA, SummaryB, SummaryEmpty, SystemEvent, StampedViolation,
   UserHello, UserBye, AssistantHello, UserUnstamped}

\* every transcript of the metadata catalog, searched for hello
MetadataInit ==
  /\ SearchProcess
  /\ args = <<Hello>>
  /\ projectsDir \in {Directory(<<Entry(<<"s", "1", ".", "j", "s", "o", "n", "l">>, 0, TRUE, lines)>>) :
                        lines \in Transcripts(MetadataCatalog, MaxMetadataLines)}

MetadataSpec == MetadataInit /\ [][SearchNext]_vars

\* the greatest and the least number of a non-empty set of numbers
SetMax(S) == CHOOSE x \in S : \A y \in S : y <= x
SetMin(S) == CHOOSE x \in S : \A y \in S : x <= y

\* the positions in the k-th file of the summary events with a non-empty summary
SummaryEvents(k) ==
  {i \in 1..Len(LinesOf(k)) :
     /\ typeOf(LinesOf(k)[i]) = SummaryType
     /\ LinesOf(k)[i].summary.t = "string"
     /\ LinesOf(k)[i].summary.v # <<>>}

\* the summary of the last summary event of the k-th file, Absent without one
ExpectedSummary(k) ==
  IF SummaryEvents(k) = {} THEN Absent
  ELSE Str(LinesOf(k)[SetMax(SummaryEvents(k))].summary.v)

StampedEvents(k) ==
  {i \in 1..Len(LinesOf(k)) :
     /\ typeOf(LinesOf(k)[i]) \in {UserType, AssistantType}
     /\ LinesOf(k)[i].timestamp.t = "string"
     /\ LinesOf(k)[i].timestamp.v # <<>>}

\* the timestamps of the first and of the last such event, Absent without one
ExpectedCreatedAt(k) ==
  IF StampedEvents(k) = {} THEN Absent
  ELSE Str(LinesOf(k)[SetMin(StampedEvents(k))].timestamp.v)

ExpectedLastModifiedAt(k) ==
  IF StampedEvents(k) = {} THEN Absent
  ELSE Str(LinesOf(k)[SetMax(StampedEvents(k))].timestamp.v)

(***************************************************************************)
(* C23: createdAt is the timestamp of the first user or assistant event of *)
(* the file that has a timestamp and lastModifiedAt that of the last one;  *)
(* both are null without such an event, so one is null exactly when the    *)
(* other is; events of other types and lines that do not parse count for   *)
(* nothing. Every result of the file carries the two values.               *)
(***************************************************************************)
C23_TimestampsAreFirstAndLastStampedEvent ==
  \A k \in 1..Len(sessionFiles) :
    LET m == extractSessionMetadata(LinesOf(k))
    IN /\ m.createdAt = ExpectedCreatedAt(k)
       /\ m.lastModifiedAt = ExpectedLastModifiedAt(k)
       /\ (m.createdAt = Absent) <=> (m.lastModifiedAt = Absent)
       /\ \A n \in 1..Len(ResultsOf(k)) :
            /\ ResultsOf(k)[n].metadata.createdAt = ExpectedCreatedAt(k)
            /\ ResultsOf(k)[n].metadata.lastModifiedAt = ExpectedLastModifiedAt(k)

\* a system event stamped 9, then user events stamped 2 and 1: created 2, modified 1
C23_Witness ==
  /\ Searched
  /\ Len(sessionFiles) = 1
  /\ LinesOf(1) = <<SystemEvent, UserBye, UserHello>>
  /\ Len(allResults) = 2
  /\ allResults[2].metadata.createdAt = Str(<<"2">>)
  /\ allResults[2].metadata.lastModifiedAt = Str(<<"1">>)

\* only a stamped summary event, a stamped system event and an unstamped user event:
\* both timestamps are null
C23_WitnessNull ==
  /\ Searched
  /\ Len(sessionFiles) = 1
  /\ LinesOf(1) = <<SummaryB, SystemEvent, UserUnstamped>>
  /\ Len(allResults) = 2
  /\ allResults[1].metadata.createdAt = Absent
  /\ allResults[1].metadata.lastModifiedAt = Absent

(***************************************************************************)
(* Session transcript search: directories drawn for the report             *)
(***************************************************************************)
MaxSessions == 3

\* a one-event transcript that matches hello, created at the given timestamp
SessionAt(timestamp) == <<TranscriptLine(Str(UserType), Str(Hello), timestamp, Absent, Absent)>>

\* transcripts without a creation timestamp and with three different ones
SessionCatalog ==
  {SessionAt(Absent), SessionAt(Str(<<"0", "9">>)), SessionAt(Str(<<"1", "0">>)),
   SessionAt(Str(<<"2", "1">>))}

\* the file name of the i-th session of a directory
SessionName(i) == <<"s", <<"1", "2", "3", "4", "5", "6", "7", "8", "9">>[i]>> \o JsonlSuffix

\* a directory of the given transcripts, in the order the walk finds them
SessionsDirectory(transcripts) ==
  Directory([i \in 1..Len(transcripts) |-> Entry(SessionName(i), 0, TRUE, transcripts[i])])

\* every directory of at most MaxSessions sessions, reported in the human-readable form
InitSessions ==
  /\ args = <<Hello>>
  /\ projectsDir \in {SessionsDirectory(ts) : ts \in Transcripts(SessionCatalog, MaxSessions)}

\* the session ids of the report's headers, in the order they were written
RenderedSessions ==
  LET headers == SelectSeq(stdout, LAMBDA l : l.line = "header")
  IN [n \in 1..Len(headers) |-> headers[n].sessionId]

\* the creation timestamp derived for the session of the given id
CreatedAtOf(id) ==
  LET k == CHOOSE k \in 1..Len(sessionFiles) : sessionFiles[k].name = id \o JsonlSuffix
  IN ExpectedCreatedAt(k)

\* the instant a timestamp of digits names
TimeOf(timestamp) == parseDigits(timestamp.v, 0)

\* a is rendered strictly before b: unknown before known, earlier before later
CreatedBefore(a, b) ==
  \/ a = Absent /\ b # Absent
  \/ a # Absent /\ b # Absent /\ TimeOf(a) < TimeOf(b)

\* the invocation asks for the human-readable report
ReportMode == ~opts.jsonOutput /\ ~opts.sessionsOnly

(***************************************************************************)
(* C22: the human-readable report renders every session with a match once, *)
(* in non-decreasing order of the derived creation timestamp, the sessions *)
(* without one before all others; a run on readable files always completes *)
(* with exit code 0, whatever timestamps are missing.                      *)
(***************************************************************************)
C22_SessionsRenderedOldestFirst ==
  /\ (Searched /\ ReportMode) =>
       /\ {RenderedSessions[n] : n \in 1..Len(RenderedSessions)}
            = {sessionsWithMatches[n] : n \in 1..Len(sessionsWithMatches)}
       /\ \A i, j \in 1..Len(RenderedSessions) :
            i < j =>
              /\ RenderedSessions[i] # RenderedSessions[j]
              /\ ~CreatedBefore(CreatedAtOf(RenderedSessions[j]), CreatedAtOf(RenderedSessions[i]))
  /\ (pc = "done" /\ truthy(opts.searchString) /\ projectsDir.exists
      /\ \A k \in 1..Len(projectsDir.entries) : projectsDir.entries[k].readable) =>
       exitCode = 0

\* sessions found in the order 21, unknown, 09 are rendered unknown, 09, 21
C22_Witness ==
  /\ Searched
  /\ projectsDir = SessionsDirectory(<<SessionAt(Str(<<"2", "1">>)), SessionAt(Absent),
                                       SessionAt(Str(<<"0", "9">>))>>)
  /\ RenderedSessions = <<<<"s", "2">>, <<"s", "3">>, <<"s", "1">>>>

(***************************************************************************)
(* Session transcript search: texts drawn for the excerpt                  *)
(***************************************************************************)
\* the longest lead before and the longest trail after the match
MaxLead == 101
MaxTrail == 201

\* n times the character c
Repeat(c, n) == [k \in 1..n |-> c]

\* a lead of n characters; the first one is U+0130 when dotted
Lead(n, dotted) ==
  IF n = 0 THEN <<>>
  ELSE (IF dotted THEN <<DottedCapitalI>> ELSE <<"x">>) \o Repeat("x", n - 1)

\* a text with its one match of hello at index n, followed by k characters
LongText(n, dotted, k) == Lead(n, dotted) \o HelloWorld \o Repeat("y", k)

\* leads and trails around the 100 and 200 characters of the excerpt window
LeadLengths == {0} \cup ((MaxLead - 2)..MaxLead)
TrailLengths == {0} \cup ((MaxTrail - 2)..MaxTrail)

\* a user event with the given text
UserSays(text) == TranscriptLine(Str(UserType), Str(text), Absent, Absent, Absent)

\* one-event transcripts of long texts, reported in the human-readable form
InitExcerpts ==
  /\ args = <<Hello>>
  /\ projectsDir \in {SessionsDirectory(<<<<UserSays(LongText(n, dotted, k))>>>>) :
                        n \in LeadLengths, dotted \in BOOLEAN, k \in TrailLengths}

\* texts with a line break, and with a long lead, before their occurrence of the search
\* string, for search strings that also occur in what the renderer adds to an excerpt
HighlightTexts ==
  {<<"a", "\n", "b", "n", " ">> \o Hello,
   Hello \o <<"\n", "n", ".">>,
   Lead(MaxLead, FALSE) \o <<".", " ">> \o Hello}

InitHighlights ==
  /\ args \in {<<Hello>>, <<<<"n">>>>, <<<<".">>>>}
  /\ projectsDir \in {SessionsDirectory(<<<<UserSays(text)>>>>) : text \in HighlightTexts}

ReportInit == SearchProcess /\ (InitSessions \/ InitExcerpts \/ InitHighlights)

ReportSpec == ReportInit /\ [][SearchNext]_vars

\* the text of the line a result was reported for
TextOf(result) ==
  LET k == CHOOSE k \in 1..Len(sessionFiles) : sessionFiles[k].name = result.sessionFile
  IN orEmpty(ExpectedText(LinesOf(k)[result.lineNumber]))

\* lit stands in text at the 0-based index o, letters compared without regard to case
OccursAt(text, o, lit) ==
  /\ o + Len(lit) <= Len(text)
  /\ \A j \in 1..Len(lit) : toLowerCaseChar(text[o + j]) = toLowerCaseChar(lit[j])

\* the 0-based index of the first occurrence of lit in text
MatchIndex(text, lit) ==
  SetMin({o \in 0..Len(text) : OccursAt(text, o, lit)})

Ellipsis == <<".", ".", ".">>

\* the newline marker the renderer puts in place of a line break
NewlineMarker == newlineFg \o <<"\\", "n">> \o reset

\* the excerpt of text[from .. to), line breaks shown by the marker
RECURSIVE Shown(_, _, _)
Shown(text, from, to) ==
  LET breaks == {k \in (from + 1)..to : text[k] = "\n"}
  IN IF breaks = {} THEN SubSeq(text, from + 1, to)
     ELSE Shown(text, from, SetMax(breaks) - 1) \o NewlineMarker \o SubSeq(text, SetMax(breaks) + 1, to)

\* the excerpt the windowing rule gives for a match of lit at index m of text
WindowExcerpt(text, m, lit) ==
  (IF m > 100 THEN Ellipsis ELSE <<>>)
  \o Shown(text, Max(0, m - 100), Min(Len(text), m + Len(lit) + 200))
  \o (IF m + Len(lit) + 200 < Len(text) THEN Ellipsis ELSE <<>>)

(***************************************************************************)
(* C24: the excerpt of a result is the text of its line from 100           *)
(* characters before the first match to 200 characters after its end, cut  *)
(* at the ends of the text, with ... in front exactly when the match index *)
(* exceeds 100 and ... behind exactly when the window ends before the      *)
(* text does.                                                              *)
(***************************************************************************)
C24_ExcerptIsTheWindowAroundTheMatch ==
  \A n \in 1..Len(allResults) :
    allResults[n].matchContext =
      WindowExcerpt(TextOf(allResults[n]), MatchIndex(TextOf(allResults[n]), SearchString),
                    SearchString)

\* the lines of the report that show a match
MatchLines == SelectSeq(stdout, LAMBDA l : l.line = "match")

\* the codes that open and close the highlighted span
HighlightOn == matchBg \o matchFg
HighlightOff == reset

\* the 0-based index at which the highlighted span opens in a match line, -1 without one
HighlightIndex(content) ==
  LET opens == {o \in 0..Len(content) : MatchLit(content, o + 1, HighlightOn)}
  IN IF opens = {} THEN -1 ELSE SetMin(opens)

\* content shows an excerpt of text in which the highlighted span is the occurrence of
\* lit at index o of text: before the span stands text from some index up to o, after
\* it text from the end of the occurrence on, each possibly cut with an ellipsis
HighlightsOccurrenceAt(content, text, o, lit) ==
  LET h == HighlightIndex(content)
      before == SubSeq(content, 1, h)
      spanFrom == h + Len(HighlightOn)
      span == SubSeq(content, spanFrom + 1, spanFrom + Len(lit))
      afterFrom == spanFrom + Len(lit) + Len(HighlightOff)
      after == SubSeq(content, afterFrom + 1, Len(content))
  IN /\ h >= 0
     /\ OccursAt(text, o, lit)
     /\ span = SubSeq(text, o + 1, o + Len(lit))
     /\ MatchLit(content, spanFrom + Len(lit) + 1, HighlightOff)
     /\ \E start \in 0..o : \E pre \in {<<>>, Ellipsis} : before = pre \o Shown(text, start, o)
     /\ \E end \in (o + Len(lit))..Len(text) : \E post \in {<<>>, Ellipsis} :
          after = Shown(text, o + Len(lit), end) \o post

(***************************************************************************)
(* C25: in every match line of the human-readable report the highlighted   *)
(* span is an occurrence of the search string in the text of the event:    *)
(* what stands before and after the span is the event's text before and    *)
(* after that occurrence, and the span lies in no ellipsis and in no       *)
(* newline marker.                                                         *)
(***************************************************************************)
C25_HighlightIsAnOccurrenceInTheText ==
  (Searched /\ ReportMode) =>
    \A l \in 1..Len(MatchLines) :
      \E n \in 1..Len(allResults) :
        /\ allResults[n].lineNumber = MatchLines[l].lineNumber
        /\ \E o \in 0..Len(TextOf(allResults[n])) :
             HighlightsOccurrenceAt(MatchLines[l].content, TextOf(allResults[n]), o, SearchString)

\* what the search without a role filter reports for the k-th searched file
UnfilteredResultsOf(k) ==
  searchSessionFile(SessionFileOf(sessionFiles[k]), SearchString, 2, NoFilter)

(***************************************************************************)
(* C29: a result reported under a role filter has the metadata, the        *)
(* context before and the context after that the search without a filter   *)
(* reports for the same line: the filter decides which lines are reported, *)
(* never what is reported for them.                                        *)
(***************************************************************************)
C29_RoleFilterLeavesMetadataAndContext ==
  Searched =>
    \A k \in 1..Len(sessionFiles) :
      LET filtered == ResultsOf(k)
          unfiltered == UnfilteredResultsOf(k)
      IN \A n \in 1..Len(filtered) :
           \E u \in 1..Len(unfiltered) :
             /\ unfiltered[u].lineNumber = filtered[n].lineNumber
             /\ unfiltered[u].metadata = filtered[n].metadata
             /\ unfiltered[u].contextBefore = filtered[n].contextBefore
             /\ unfiltered[u].contextAfter = filtered[n].contextAfter

\* under --user the result of a user event has an assistant event in its context and
\* the summary of a summary event in its metadata
C29_Witness ==
  /\ Searched
  /\ UserFlag /\ ~AssistantFlag
  /\ Len(sessionFiles) = 1
  /\ LinesOf(1) = <<SummaryLine, AssistantHello, UserHello>>
  /\ Len(allResults) = 1
  /\ allResults[1].lineNumber = 3
  /\ allResults[1].metadata.summary = SummaryLine.summary
  /\ Len(allResults[1].contextBefore) = 1
  /\ allResults[1].contextBefore[1].lineNumber = 2
  /\ allResults[1].contextBefore[1].type = AgentType

(***************************************************************************)
(* Status-line formatter: the usage window                                 *)
(***************************************************************************)
\* the clock counts ticks; an hour has TicksPerHour of them, so that there are instants
\* on the hour and off it
TicksPerHour == 2

\* 5 * 60 * 60 * 1000 milliseconds, in ticks
WindowLength == 5 * TicksPerHour

\* the last instant the clock reaches, and the longest time between two invocations
MaxClock == 24
MaxAdvance == 12

\* a Date: a time value, or NaN for an invalid date
ValidDate(t) == [valid |-> TRUE, time |-> t]
InvalidDate == [valid |-> FALSE, time |-> 0]

\* a string that holds a date: in the form toISOString writes, in another form Date can
\* parse, or no date at all; NoString where there is no string
IsoString(t) == [form |-> "iso", time |-> t]
OtherDateString(t) == [form |-> "other", time |-> t]
NotADateString == [form |-> "invalid", time |-> 0]
NoString == [form |-> "none", time |-> 0]

\* new Date(text)
parseDate(text) == IF text.form \in {"iso", "other"} THEN ValidDate(text.time) ELSE InvalidDate

\* date.toISOString()
toISOString(date) == IsoString(date.time)

\* a < b on two Dates: false when either is invalid
dateLess(a, b) == a.valid /\ b.valid /\ a.time < b.time

\* roundToHour: the start of the UTC hour of the date
roundToHour(date) == ValidDate(date.time - (date.time % TicksPerHour))

\* { startTime, endTime }, and undefined
Window(startTime, endTime) == [defined |-> TRUE, startTime |-> startTime, endTime |-> endTime]
NoWindow == [defined |-> FALSE, startTime |-> NoString, endTime |-> NoString]

\* the state file: missing, text that is no JSON, JSON the schema rejects, and JSON of the
\* shape { currentWindow?: { startTime, endTime } }
AbsentStateFile == [kind |-> "absent", currentWindow |-> NoWindow]
UnparseableStateFile == [kind |-> "text", currentWindow |-> NoWindow]
InvalidStateFile == [kind |-> "invalid", currentWindow |-> NoWindow]
StateFile(window) == [kind |-> "state", currentWindow |-> window]

\* loadWindowState
loadWindowState(file) ==
  IF file.kind = "absent" THEN [currentWindow |-> NoWindow]
  ELSE IF file.kind = "text" THEN [currentWindow |-> NoWindow]
  ELSE IF file.kind = "invalid" THEN [currentWindow |-> NoWindow]
  ELSE [currentWindow |-> file.currentWindow]

\* mutant: a new window starts at the current time, not at the start of its hour
getCurrentWindowUnrounded(state, date) ==
  IF state.currentWindow.defined /\ dateLess(date, parseDate(state.currentWindow.endTime))
    THEN state.currentWindow
  ELSE Window(toISOString(date), toISOString(ValidDate(date.time + WindowLength)))

\* mutant: a new window on every invocation
getCurrentWindowAlwaysNew(state, date) ==
  Window(toISOString(roundToHour(date)),
         toISOString(ValidDate(roundToHour(date).time + WindowLength)))

\* getCurrentWindow, with the Date it takes as now
getCurrentWindow(state, date) ==
  IF state.currentWindow.defined /\ dateLess(date, parseDate(state.currentWindow.endTime))
    THEN state.currentWindow
  ELSE Window(toISOString(roundToHour(date)),
              toISOString(ValidDate(roundToHour(date).time + WindowLength)))

\* formatTimeUntilReset: hours and minutes until endTime
formatTimeUntilReset(endTime, date) ==
  LET untilReset == Max(0, parseDate(endTime).time - date.time)
  IN [hours |-> untilReset \div TicksPerHour,
      minutes |-> (untilReset % TicksPerHour) * (60 \div TicksPerHour)]

\* the documents on stdin: JSON the schema accepts, JSON it rejects, and text that is no JSON
StatusInput(syntax, accepted) == [syntax |-> syntax, accepted |-> accepted]
StatusInputs ==
  {StatusInput("json", TRUE), StatusInput("json", FALSE), StatusInput("malformed", FALSE)}

\* the input is read and copied to ~/.claude.laststatusline.json; writeFileSync throws
\* when the file cannot be written and nothing catches it
ReadStatusInput ==
  /\ pc = "start"
  /\ input' = stdin
  /\ IF homeWritable
       THEN /\ statusFile' = stdin
            /\ pc' = "parse"
            /\ UNCHANGED <<exitCode, stderr>>
       ELSE Exit(1, TRUE) /\ UNCHANGED statusFile
  /\ UNCHANGED <<argv, rulesModule, stdin, debugWritable, rules, debugFile, data,
                 evaluated, decisions, stdout>>
  /\ UNCHANGED <<clock, homeWritable, stateFile, windowState, now, currentWindow>>
  /\ UNCHANGED <<searchVars, installVars>>

\* StatusLineInputSchema.safeParse(JSON.parse(input)): JSON.parse throws on text that is
\* no JSON, a schema violation exits with status 1
ParseStatusInput ==
  /\ pc = "parse"
  /\ IF input.syntax = "malformed" THEN Exit(1, TRUE)
     ELSE IF ~input.accepted THEN Exit(1, TRUE)
     ELSE pc' = "window" /\ UNCHANGED <<exitCode, stderr>>
  /\ UNCHANGED <<argv, rulesModule, stdin, debugWritable, rules, input, debugFile, data,
                 evaluated, decisions, stdout>>
  /\ UNCHANGED <<searchVars, toolVars>>

\* the state is loaded and the current window taken or made
LoadWindow ==
  /\ pc = "window"
  /\ windowState' = loadWindowState(stateFile)
  /\ now' = clock
  /\ currentWindow' = getCurrentWindow(loadWindowState(stateFile), ValidDate(clock))
  /\ pc' = "save"
  /\ UNCHANGED <<argv, rulesModule, stdin, debugWritable, rules, input, debugFile, data,
                 evaluated, decisions, stdout, stderr, exitCode>>
  /\ UNCHANGED <<clock, homeWritable, statusFile, stateFile>>
  /\ UNCHANGED <<searchVars, installVars>>

\* writeFileSync(stateFilePath, JSON.stringify({ currentWindow }, null, 2))
SaveWindow ==
  /\ pc = "save"
  /\ IF homeWritable
       THEN /\ stateFile' = StateFile(currentWindow)
            /\ pc' = "print"
            /\ UNCHANGED <<exitCode, stderr>>
       ELSE Exit(1, TRUE) /\ UNCHANGED stateFile
  /\ UNCHANGED <<argv, rulesModule, stdin, debugWritable, rules, input, debugFile, data,
                 evaluated, decisions, stdout>>
  /\ UNCHANGED <<clock, homeWritable, statusFile, windowState, now, currentWindow>>
  /\ UNCHANGED <<searchVars, installVars>>

\* the status line is written and the script ends
PrintStatus ==
  /\ pc = "print"
  /\ stdout' = Append(stdout, [line |-> "status",
                               resetTime |-> formatTimeUntilReset(currentWindow.endTime, ValidDate(clock))])
  /\ Exit(0, FALSE)
  /\ UNCHANGED <<argv, rulesModule, stdin, debugWritable, rules, input, debugFile, data,
                 evaluated, decisions>>
  /\ UNCHANGED <<searchVars, toolVars>>

\* the formatter is started again, at the same time or later, on another input
NextInvocation ==
  /\ pc = "done"
  /\ \E advance \in 0..MaxAdvance :
       /\ clock + advance <= MaxClock
       /\ clock' = clock + advance
  /\ stdin' \in StatusInputs
  /\ homeWritable' \in BOOLEAN
  /\ pc' = "start"
  /\ input' = NoText
  /\ stdout' = <<>>
  /\ stderr' = FALSE
  /\ exitCode' = -1
  /\ windowState' = [currentWindow |-> NoWindow]
  /\ now' = 0
  /\ currentWindow' = NoWindow
  /\ UNCHANGED <<argv, rulesModule, debugWritable, rules, debugFile, data, evaluated, decisions>>
  /\ UNCHANGED <<statusFile, stateFile>>
  /\ UNCHANGED <<searchVars, installVars>>

StatuslineNext ==
  \/ ReadStatusInput
  \/ ParseStatusInput
  \/ LoadWindow
  \/ SaveWindow
  \/ PrintStatus
  \/ NextInvocation

\* the state files a first invocation can find: none, text that is no JSON, JSON of
\* another shape, a state without a window, and windows written by hand: one that ends
\* off the hour, one in another date format, one without dates, one far ahead
FoundStateFiles ==
  {AbsentStateFile, UnparseableStateFile, InvalidStateFile, StateFile(NoWindow),
   StateFile(Window(IsoString(0), IsoString(3))),
   StateFile(Window(OtherDateString(2), OtherDateString(7))),
   StateFile(Window(NotADateString, NotADateString)),
   StateFile(Window(IsoString(1), IsoString(MaxClock + WindowLength)))}

\* the state of the process before the formatter's first statement
StatuslineProcess ==
  /\ InitProcess
  /\ NoSearch
  /\ NoInstaller
  /\ argv = Invocation(<<>>, "")
  /\ rulesModule = <<>>
  /\ debugWritable = TRUE
  /\ stdin \in StatusInputs
  /\ homeWritable \in BOOLEAN
  /\ statusFile = NoText
  /\ windowState = [currentWindow |-> NoWindow]
  /\ now = 0
  /\ currentWindow = NoWindow

\* a first invocation at some time of the first two hours, on any state file
StatuslineInit ==
  /\ StatuslineProcess
  /\ clock \in 0..(2 * TicksPerHour)
  /\ stateFile \in FoundStateFiles

StatuslineSpec == StatuslineInit /\ [][StatuslineNext]_vars


\* invocations that start from a missing state file or from one that is no JSON
FreshStatuslineInit ==
  /\ StatuslineProcess
  /\ clock \in 0..(2 * TicksPerHour)
  /\ stateFile \in {AbsentStateFile, UnparseableStateFile}

FreshStatuslineSpec == FreshStatuslineInit /\ [][StatuslineNext]_vars

\* the invocation has taken or made its window
HasWindow == pc \in {"save", "print"} \/ (pc = "done" /\ currentWindow.defined)

\* the invocation made a window: the one it holds is not the one it loaded
CreatedWindow == HasWindow /\ currentWindow # windowState.currentWindow

\* the start of the hour that holds the instant t
HourStart(t) == CHOOSE h \in 0..t : h % TicksPerHour = 0 /\ h <= t /\ t < h + TicksPerHour

\* the state file holds a window that ends after the instant t
HoldsWindowEndingAfter(t) ==
  /\ stateFile.kind = "state"
  /\ stateFile.currentWindow.defined
  /\ stateFile.currentWindow.endTime.form \in {"iso", "other"}
  /\ stateFile.currentWindow.endTime.time > t

StoredWindow(file) == loadWindowState(file).currentWindow
HoldsDatedWindow(file) ==
  /\ StoredWindow(file).defined
  /\ parseDate(StoredWindow(file).startTime).valid
  /\ parseDate(StoredWindow(file).endTime).valid

\* a step of the formatter writes the state file
RewritesState == pc = "save" /\ pc' = "print"

\* C27: from an absent or unparseable state file and with a clock that never goes back,
\* a stored window is rewritten unchanged while now < endTime, is replaced only once
\* now >= endTime, and the window that replaces it starts at or after its end
C27_WindowStep ==
  /\ clock' >= clock
  /\ StoredWindow(stateFile).defined =>
       /\ HoldsDatedWindow(stateFile)
       /\ (RewritesState /\ clock < parseDate(StoredWindow(stateFile).endTime).time)
            => stateFile' = stateFile
       /\ (RewritesState /\ clock >= parseDate(StoredWindow(stateFile).endTime).time)
            => stateFile' # stateFile
       /\ stateFile' # stateFile =>
            /\ RewritesState
            /\ clock >= parseDate(StoredWindow(stateFile).endTime).time
            /\ HoldsDatedWindow(stateFile')
            /\ parseDate(StoredWindow(stateFile').startTime).time
                 >= parseDate(StoredWindow(stateFile).endTime).time

C27_WindowsNeverOverlap == [][C27_WindowStep]_vars

\* a run that has replaced an expired window by one that starts after its end
C27_Witness ==
  /\ pc = "print"
  /\ windowState.currentWindow.defined
  /\ stateFile = StateFile(currentWindow)
  /\ currentWindow # windowState.currentWindow
  /\ parseDate(currentWindow.startTime).time > parseDate(windowState.currentWindow.endTime).time

\* a run that has rewritten a live window as it was
C27_WitnessUnchanged ==
  /\ pc = "print"
  /\ windowState.currentWindow.defined
  /\ stateFile = StateFile(windowState.currentWindow)
  /\ now > parseDate(currentWindow.startTime).time


(***************************************************************************)
(* Hook installer (install/hooks.ts)                                       *)
(***************************************************************************)
\* `${hookScriptPath} bash PreToolUse`
hookCommand == "hook.ts bash PreToolUse"

\* a JSON object is a record of the keys the schemas name, plus the set of the other
\* keys it holds; optional values carry a presence mark
Hook(type, command, others) == [type |-> type, command |-> command, others |-> others]
NoHooks == [present |-> FALSE, list |-> <<>>]
Hooks(list) == [present |-> TRUE, list |-> list]
Matcher(matcher, hooks, others) == [matcher |-> matcher, hooks |-> hooks, others |-> others]
NoPreToolUse == [present |-> FALSE, list |-> <<>>]
PreToolUse(list) == [present |-> TRUE, list |-> list]
NoHooksObject == [present |-> FALSE, PreToolUse |-> NoPreToolUse, others |-> {}]
HooksObject(preToolUse, others) == [present |-> TRUE, PreToolUse |-> preToolUse, others |-> others]
Settings(hooks, others) == [hooks |-> hooks, others |-> others]

\* expectedHook
GuardHook == Hook("command", hookCommand, {})
expectedHook == Matcher("Bash", Hooks(<<GuardHook>>), {})

\* HookSchema: z.object keeps the keys it names
HookSchema(hook) == Hook(hook.type, hook.command, {})

\* PreToolUseHookSchema
PreToolUseHookSchema(entry) ==
  Matcher(entry.matcher,
          IF entry.hooks.present
            THEN Hooks([k \in 1..Len(entry.hooks.list) |-> HookSchema(entry.hooks.list[k])])
          ELSE NoHooks,
          {})

\* SettingsSchema: passthrough() keeps the other keys of the outer object only
SettingsSchema(value) ==
  Settings(IF value.hooks.present
             THEN HooksObject(IF value.hooks.PreToolUse.present
                                THEN PreToolUse([k \in 1..Len(value.hooks.PreToolUse.list) |->
                                                   PreToolUseHookSchema(value.hooks.PreToolUse.list[k])])
                              ELSE NoPreToolUse,
                              {})
           ELSE NoHooksObject,
           value.others)

\* settings.json: missing, text that is no JSON, JSON the schema rejects, and settings
AbsentSettingsFile == [kind |-> "absent", value |-> Settings(NoHooksObject, {})]
UnparseableSettingsFile == [kind |-> "text", value |-> Settings(NoHooksObject, {})]
InvalidSettingsFile == [kind |-> "invalid", value |-> Settings(NoHooksObject, {})]
SettingsFile(value) == [kind |-> "settings", value |-> value]

\* settings.hooks ??= {} and settings.hooks.PreToolUse ??= []
withPreToolUse(value) ==
  Settings(HooksObject(IF value.hooks.present /\ value.hooks.PreToolUse.present
                         THEN value.hooks.PreToolUse
                       ELSE PreToolUse(<<>>),
                       IF value.hooks.present THEN value.hooks.others ELSE {}),
           value.others)

\* findIndex((hook) => hook.matcher === 'Bash'), 0 for -1
existingBashHookIndex(list) ==
  IF \E k \in 1..Len(list) : list[k].matcher = "Bash"
    THEN SetMin({k \in 1..Len(list) : list[k].matcher = "Bash"})
  ELSE 0

\* existingHooks
existingHooks(entry) == IF entry.hooks.present THEN entry.hooks.list ELSE <<>>

\* alreadyInstalled
alreadyInstalled(list) ==
  /\ existingBashHookIndex(list) # 0
  /\ \E k \in 1..Len(existingHooks(list[existingBashHookIndex(list)])) :
       LET h == existingHooks(list[existingBashHookIndex(list)])[k]
       IN h.type = "command" /\ h.command = hookCommand

\* mutant: the guard is put into a matcher of its own whatever the list holds
withGuardAppended(value) ==
  [value EXCEPT !.hooks.PreToolUse.list = Append(@, expectedHook)]

\* the settings with the guard put in: into the first Bash matcher, or in a new matcher
withGuard(value) ==
  LET list == value.hooks.PreToolUse.list
      index == existingBashHookIndex(list)
  IN IF index # 0
       THEN [value EXCEPT !.hooks.PreToolUse.list[index].hooks =
                            Hooks(Append(existingHooks(list[index]), GuardHook))]
     ELSE [value EXCEPT !.hooks.PreToolUse.list = Append(list, expectedHook)]

\* the two existence checks and createBackup
InstallCheck ==
  /\ pc = "start"
  /\ IF settingsFile.kind = "absent"
       THEN /\ stdout' = Append(stdout, "Working with file")
            /\ Exit(1, TRUE)
            /\ UNCHANGED backups
     ELSE IF ~hookScriptExists
       THEN /\ stdout' = Append(stdout, "Working with file")
            /\ Exit(1, TRUE)
            /\ UNCHANGED backups
     ELSE /\ backups' = Append(backups, settingsFile)
          /\ stdout' = stdout \o <<"Working with file", "Created backup">>
          /\ pc' = "read"
          /\ UNCHANGED <<exitCode, stderr>>
  /\ UNCHANGED <<argv, rulesModule, stdin, debugWritable, rules, input, debugFile, data,
                 evaluated, decisions>>
  /\ UNCHANGED <<settingsFile, hookScriptExists, settings, settingsWrites, runs>>
  /\ UNCHANGED <<searchVars, windowVars>>

\* the file is read, parsed and validated, and the two defaults are filled in
InstallRead ==
  /\ pc = "read"
  /\ IF settingsFile.kind = "text"
       THEN Exit(1, TRUE) /\ UNCHANGED settings
     ELSE IF settingsFile.kind = "invalid"
       THEN Exit(1, TRUE) /\ UNCHANGED settings
     ELSE /\ settings' = withPreToolUse(SettingsSchema(settingsFile.value))
          /\ pc' = "update"
          /\ UNCHANGED <<exitCode, stderr>>
  /\ UNCHANGED <<argv, rulesModule, stdin, debugWritable, rules, input, debugFile, data,
                 evaluated, decisions, stdout>>
  /\ UNCHANGED <<settingsFile, hookScriptExists, backups, settingsWrites, runs>>
  /\ UNCHANGED <<searchVars, windowVars>>

\* the guard is looked for and, when it is not there, added and the file written
InstallUpdate ==
  /\ pc = "update"
  /\ IF alreadyInstalled(settings.hooks.PreToolUse.list)
       THEN /\ stdout' = stdout \o <<"already installed", "Hook command">>
            /\ UNCHANGED <<settings, settingsFile, settingsWrites>>
     ELSE /\ settings' = withGuard(settings)
          /\ settingsFile' = SettingsFile(withGuard(settings))
          /\ settingsWrites' = settingsWrites + 1
          /\ stdout' = stdout \o
               <<IF existingBashHookIndex(settings.hooks.PreToolUse.list) # 0
                   THEN "Added to existing Bash hooks" ELSE "Created new Bash hook",
                 "Successfully configured", "Hook command">>
  /\ Exit(0, FALSE)
  /\ UNCHANGED <<argv, rulesModule, stdin, debugWritable, rules, input, debugFile, data,
                 evaluated, decisions>>
  /\ UNCHANGED <<hookScriptExists, backups, runs>>
  /\ UNCHANGED <<searchVars, windowVars>>

\* the installer is run again
MaxRuns == 3

InstallAgain ==
  /\ pc = "done"
  /\ runs < MaxRuns
  /\ runs' = runs + 1
  /\ pc' = "start"
  /\ stdout' = <<>>
  /\ stderr' = FALSE
  /\ exitCode' = -1
  /\ settings' = Settings(NoHooksObject, {})
  /\ UNCHANGED <<argv, rulesModule, stdin, debugWritable, rules, input, debugFile, data,
                 evaluated, decisions>>
  /\ UNCHANGED <<settingsFile, hookScriptExists, backups, settingsWrites>>
  /\ UNCHANGED <<searchVars, windowVars>>

InstallNext ==
  \/ InstallCheck
  \/ InstallRead
  \/ InstallUpdate
  \/ InstallAgain

\* the matchers a settings file may hold, and the settings built from them
MaxMatchers == 2

HookCatalog ==
  {<<>>, <<GuardHook>>,
   <<Hook("command", "lint.sh", {})>>,
   <<Hook("command", "lint.sh", {"timeout"})>>,
   <<Hook("prompt", hookCommand, {})>>,
   <<Hook("command", "lint.sh", {}), Hook("command", hookCommand, {"timeout"})>>}

MatcherCatalog ==
  {Matcher("Bash", NoHooks, {})}
    \cup {Matcher("Bash", Hooks(list), {}) : list \in HookCatalog}
    \cup {Matcher("Edit", Hooks(<<Hook("command", "lint.sh", {})>>), {}),
          Matcher("Edit", Hooks(<<GuardHook>>), {"description"})}

MatcherLists == UNION {[1..n -> MatcherCatalog] : n \in 0..MaxMatchers}

SettingsCatalog ==
  {Settings(hooks, others) :
     hooks \in {NoHooksObject}
                 \cup {HooksObject(NoPreToolUse, o) : o \in {{}, {"PostToolUse"}}}
                 \cup {HooksObject(PreToolUse(list), o) :
                         list \in MatcherLists, o \in {{}, {"PostToolUse"}}},
     others \in {{}, {"model"}}}

InstallInit ==
  /\ InitProcess
  /\ NoSearch
  /\ NoFormatter
  /\ argv = Invocation(<<>>, "")
  /\ rulesModule = <<>>
  /\ debugWritable = TRUE
  /\ stdin = NoText
  /\ settingsFile \in {AbsentSettingsFile, UnparseableSettingsFile, InvalidSettingsFile}
                        \cup {SettingsFile(value) : value \in SettingsCatalog}
  /\ hookScriptExists \in BOOLEAN
  /\ backups = <<>>
  /\ settings = Settings(NoHooksObject, {})
  /\ settingsWrites = 0
  /\ runs = 1

InstallSpec == InstallInit /\ [][InstallNext]_vars


\* the settings file before the first run: the first backup is a copy of it
InitialSettingsFile == backups[1]

\* a run that went through on a settings file that was valid at the start
InstalledOnValidSettings ==
  /\ pc = "done"
  /\ exitCode = 0
  /\ Len(backups) >= 1
  /\ InitialSettingsFile.kind = "settings"

\* the PreToolUse matchers of a settings value
MatchersOf(value) ==
  IF value.hooks.present /\ value.hooks.PreToolUse.present THEN value.hooks.PreToolUse.list ELSE <<>>

\* the hook entries of a matcher
EntriesOf(entry) == IF entry.hooks.present THEN entry.hooks.list ELSE <<>>

\* how often the guard's command is among the entries of the first Bash matcher
GuardCount(value) ==
  LET bash == {k \in 1..Len(MatchersOf(value)) : MatchersOf(value)[k].matcher = "Bash"}
  IN IF bash = {} THEN 0
     ELSE LET entries == EntriesOf(MatchersOf(value)[SetMin(bash)])
          IN Cardinality({k \in 1..Len(entries) :
                            entries[k].type = "command" /\ entries[k].command = hookCommand})

\* the settings value after keeps what the value before held: the other keys of the
\* settings and of the hooks object, every matcher at its place with its name and its
\* other keys, and in it every hook entry at its place with all its keys
KeepsEverything(before, after) ==
  /\ after.others = before.others
  /\ before.hooks.present =>
       after.hooks.present /\ before.hooks.others \subseteq after.hooks.others
  /\ Len(MatchersOf(after)) >= Len(MatchersOf(before))
  /\ \A k \in 1..Len(MatchersOf(before)) :
       LET old == MatchersOf(before)[k]
           new == MatchersOf(after)[k]
       IN /\ new.matcher = old.matcher
          /\ new.others = old.others
          /\ Len(EntriesOf(new)) >= Len(EntriesOf(old))
          /\ \A j \in 1..Len(EntriesOf(old)) : EntriesOf(new)[j] = EntriesOf(old)[j]

\* running twice leaves what running once left: from the second backup on, every copy
\* of the file and the file itself are the same
SecondRunChangesNothing ==
  \A k \in 2..Len(backups) : backups[k] = backups[2] /\ settingsFile = backups[2]

\* the first Bash matcher holds the guard's command once when it did not hold it at first
GuardInstalledOnce ==
  GuardCount(InitialSettingsFile.value) = 0 => GuardCount(settingsFile.value) = 1

\* a run that finds the guard installed does not write the file
NoRewriteWhenInstalled ==
  /\ settingsWrites <= 1
  /\ alreadyInstalled(MatchersOf(InitialSettingsFile.value)) =>
       settingsWrites = 0 /\ settingsFile = InitialSettingsFile

\* C30 (the part that holds): on a valid settings file a second run changes nothing,
\* the first Bash matcher holds the guard's command exactly once when it did not hold it
\* at first, and a run that finds the guard installed does not rewrite the file
C30_InstallIsIdempotent ==
  InstalledOnValidSettings =>
    /\ SecondRunChangesNothing
    /\ GuardInstalledOnce
    /\ NoRewriteWhenInstalled

\* C30: on a valid settings file a second run changes nothing, the first Bash matcher
\* holds the guard's command exactly once when it did not hold it at first, every matcher,
\* hook entry and unrelated settings key that was there is still there, and a run that
\* finds the guard installed does not rewrite the file
C30_InstallIsIdempotentAndKeepsEverything ==
  InstalledOnValidSettings =>
    /\ SecondRunChangesNothing
    /\ GuardInstalledOnce
    /\ KeepsEverything(InitialSettingsFile.value, settingsFile.value)
    /\ NoRewriteWhenInstalled

\* C30 restricted to settings whose nested objects hold no keys besides the schema's:
\* there everything is kept
C30_KeepsEverythingTheSchemaNames ==
  (InstalledOnValidSettings /\ SettingsSchema(InitialSettingsFile.value) = InitialSettingsFile.value)
    => KeepsEverything(InitialSettingsFile.value, settingsFile.value)

\* a third run on settings that held a Bash matcher with another hook and no guard
C30_Witness ==
  /\ InstalledOnValidSettings
  /\ runs = MaxRuns
  /\ Len(backups) = MaxRuns
  /\ settingsWrites = 1
  /\ GuardCount(InitialSettingsFile.value) = 0
  /\ existingBashHookIndex(MatchersOf(InitialSettingsFile.value)) # 0
  /\ Len(EntriesOf(MatchersOf(InitialSettingsFile.value)[1])) = 1

====
